---------------------------- MODULE Spec2Model ----------------------------
(***************************************************************************)
(* A model of the flitz request dispatcher (src/src/server.ts, the variant *)
(* with global middlewares, lines 296-661) and of its default handlers.    *)
(*                                                                         *)
(* JavaScript values are records tagged by "t"; request paths are          *)
(* sequences of one-character strings, so that string equality and         *)
(* RegExp.test are computed and not assumed.                               *)
(*                                                                         *)
(* The functions of the caller (handlers, middlewares) are the environment:*)
(* a function invoked throws at once or runs, and a running one is done or *)
(* is rejected at any later moment.  A middleware calls its next() at most *)
(* once while it runs, and does not catch what next() throws.              *)
(***************************************************************************)
EXTENDS Integers, Sequences, FiniteSets, TLC

VARIABLES
  errorHandler,       \* server.ts:297  the error handler slot
  notFoundHandler,    \* server.ts:301  the not-found handler slot
  globalMiddleWares,  \* server.ts:299  the array of global middlewares
  groupedHandlers,    \* server.ts:303  the raw route table (one object, mutated in place)
  compiledHandlers,   \* server.ts:304  a REFERENCE: 0 is the groupedHandlers object itself
  tables,             \* the objects built by compileAllWithMiddlewares, by reference
  ret,                \* what the last call of the API gave its caller: the value returned,
                      \* or the TypeError thrown and the method that threw it
  reqs,               \* the requests handed to the dispatcher, by request id
  instance,           \* server.ts:300  the http server of listen(), or undefined
  promises,           \* server.ts:403, 417  the promises of the last listen() and the
                      \* last close() of the server
  peer,               \* the variables of server.ts:297-304 of a second createServer()
  self,               \* which of the two servers the variables above belong to
  disk,               \* the files under the root directory of static(), with their bytes
  lastIndex           \* server.ts:520  the lastIndex of the RegExp objects of the caller
                      \* that have one of the flags g and y

\* The variables errorHandler ... tables, instance and promises are the
\* closure of one call of createServer(), the server the caller is calling;
\* peer is the closure of the other call.

vars == <<errorHandler, notFoundHandler, globalMiddleWares, groupedHandlers,
          compiledHandlers, tables, ret, reqs, instance, promises, peer, self, disk, lastIndex>>

serverVars == <<errorHandler, notFoundHandler, globalMiddleWares, groupedHandlers,
                compiledHandlers, tables, instance, promises>>

-----------------------------------------------------------------------------
(* Bounds of the model.                                                    *)

\* routes kept in the route table, over all methods
MaxRoutes == 2
\* entries of the global middleware array
MaxGlobals == 2

-----------------------------------------------------------------------------
(* JavaScript values.                                                      *)

Undefined == [t |-> "undefined"]
Fn(id) == [t |-> "function", id |-> id]
Str(s) == [t |-> "string", s |-> s]
Num(n) == [t |-> "number", n |-> n]
RegExpV(src) == [t |-> "regexp", src |-> src]
RegExpF(src, flags) == [t |-> "regexp", src |-> src, flags |-> flags]
Arr(items) == [t |-> "array", items |-> items]
Obj(use) == [t |-> "object", use |-> use]
Bool(b) == [t |-> "boolean", b |-> b]

\* the typeof operator
typeOf(v) ==
  CASE v.t = "function" -> "function"
    [] v.t = "string" -> "string"
    [] v.t = "number" -> "number"
    [] v.t = "undefined" -> "undefined"
    [] v.t = "boolean" -> "boolean"
    [] OTHER -> "object"

\* ToBoolean, as the `if (optionsOrMiddlewares)` of withMethod applies it
Truthy(v) ==
  CASE v.t = "undefined" -> FALSE
    [] v.t = "string" -> v.s # <<>>
    [] v.t = "number" -> v.n # 0
    [] v.t = "boolean" -> v.b
    [] OTHER -> TRUE

\* arguments[k] (k counted from 0): undefined past the end
Arg(args, k) == IF k + 1 <= Len(args) THEN args[k + 1] ELSE Undefined

\* the .length of options.use when there is one, else 0 (`options.use?.length`)
UseLength(options) ==
  IF options.t = "object" /\ options.use.t = "array" THEN Len(options.use.items) ELSE 0

-----------------------------------------------------------------------------
(* Path validators (server.ts:515-525, 645-652).                           *)

\* the text a request can have as its url
PathA == <<"/", "a">>
PathB == <<"/", "b">>
PathEmpty == <<>>

\* RegExp.prototype.test for a pattern without flags whose source is a
\* literal text: true iff the text occurs somewhere in the url
RegexTest(src, url) ==
  \E k \in 0..(Len(url) - Len(src)) :
    \A j \in 1..Len(src) : url[k + j] = src[j]

\* a RegExp without flags keeps no state between its tests
isPathValidByRegex(path) ==
  IF "flags" \in DOMAIN path
    THEN [kind |-> "regex", src |-> path.src, flags |-> path.flags]
    ELSE [kind |-> "regex", src |-> path.src]

isPathValidByString(path) == [kind |-> "string", path |-> path.s]

\* a custom predicate is the function the caller passed, kept as it is
isPathValidByFunction(path) == [kind |-> "function", id |-> path.id]

\* what a caller's predicate function answers: "pAll" is `req => true`
PredicateResult(id, req) == id = "pAll"

\* a predicate function of the caller that throws: "pThrow"
PredicateThrows(id) == id = "pThrow"

\* the RegExp objects with a lastIndex that moves, each known by its source
\* and its flag
StatefulRegExps == { <<PathA, "g">>, <<PathA, "y">> }

\* the places (counted from 0) at or after `from` where the text occurs
Occurrences(src, url, from) ==
  {k \in from..(Len(url) - Len(src)) : \A j \in 1..Len(src) : url[k + j] = src[j]}

\* RegExp.prototype.test of a RegExp with the flag g or y: the search starts
\* at lastIndex (g: the first occurrence from there, y: an occurrence there),
\* a match leaves lastIndex behind it, a failure at 0
StatefulTest(v, url, li) ==
  LET from == li[<<v.src, v.flags>>]
      found == IF v.flags = "y" THEN Occurrences(v.src, url, from) \cap {from}
               ELSE Occurrences(v.src, url, from)
  IN IF found = {}
       THEN [ok |-> FALSE, threw |-> FALSE, li |-> [li EXCEPT ![<<v.src, v.flags>>] = 0]]
       ELSE LET k == CHOOSE x \in found : \A y \in found : x <= y
            IN [ok |-> TRUE, threw |-> FALSE,
                li |-> [li EXCEPT ![<<v.src, v.flags>>] = k + Len(v.src)]]

\* ctx.isPathValid(req) with the lastIndex values li: what it answers, whether
\* it throws, and the lastIndex values it leaves
Test(v, req, li) ==
  CASE v.kind = "string" -> [ok |-> req.url = v.path, threw |-> FALSE, li |-> li]
    [] v.kind = "regex" ->
         IF "flags" \in DOMAIN v
           THEN StatefulTest(v, req.url, li)
           ELSE [ok |-> RegexTest(v.src, req.url), threw |-> FALSE, li |-> li]
    [] v.kind = "startsWith" ->
         [ok |-> Len(v.basePath) <= Len(req.url)
                 /\ SubSeq(req.url, 1, Len(v.basePath)) = v.basePath,
          threw |-> FALSE, li |-> li]
    [] OTHER -> [ok |-> ~PredicateThrows(v.id) /\ PredicateResult(v.id, req),
                 threw |-> PredicateThrows(v.id), li |-> li]

\* ctx.isPathValid(req) answers true, as things are
IsPathValid(v, req) == Test(v, req, lastIndex).ok

-----------------------------------------------------------------------------
(* Handlers (server.ts:547-571).  mergeHandler closes over the array it is *)
(* given: the copy made by options.use.map() for a route, the one          *)
(* globalMiddleWares array itself for the compiled table.                  *)

\* a function of the caller, used as a handler
UserHandler(v) == [kind |-> "fn", id |-> v.id]

\* an array of middleware functions that no one else holds
ArrayCopy(items) == [live |-> FALSE, items |-> [k \in 1..Len(items) |-> items[k].id]]

\* the globalMiddleWares array object: its elements are read when next() runs
GlobalArray == [live |-> TRUE, items |-> <<>>]

\* an array read from its end; MiddlewareOrder tells it from Items
ItemsReversed(arr) ==
  LET items == IF arr.live THEN globalMiddleWares ELSE arr.items
  IN [k \in 1..Len(items) |-> items[Len(items) + 1 - k]]

\* the elements of an array as they are now
Items(arr) == IF arr.live THEN globalMiddleWares ELSE arr.items

mergeHandler(handler, middlewares) ==
  [kind |-> "merged", handler |-> handler, middlewares |-> middlewares]

-----------------------------------------------------------------------------
(* The compiled table (server.ts:303-311, 458-478).                        *)

\* the table the dispatcher reads through compiledHandlers
Compiled == IF compiledHandlers = 0 THEN groupedHandlers ELSE tables[compiledHandlers]

\* compiledHandlers[req.method]: the bucket, or nothing
Bucket(table, method) == IF method \in DOMAIN table THEN table[method] ELSE <<>>

\* a rebuild that wraps the handlers of the table compiled before, where it has
\* them, and not the raw ones; NoDoubleApplication tells it from server.ts:458-478
CompiledTableIncremental(grouped) ==
  [m \in DOMAIN grouped |->
     [k \in 1..Len(grouped[m]) |->
        [handler |-> mergeHandler(IF k <= Len(Bucket(Compiled, m))
                                    THEN Compiled[m][k].handler
                                    ELSE grouped[m][k].handler,
                                  GlobalArray),
         isPathValid |-> grouped[m][k].isPathValid]]]

\* the object compileAllWithMiddlewares builds when there are middlewares
CompiledTable(grouped) ==
  [m \in DOMAIN grouped |->
     [k \in 1..Len(grouped[m]) |->
        [handler |-> mergeHandler(grouped[m][k].handler, GlobalArray),
         isPathValid |-> grouped[m][k].isPathValid]]]

\* the reference of the object compileAllWithMiddlewares builds; the variable
\* compiledHandlers is the only holder of the one built before, which is gone
\* with the assignment of server.ts:306
FreshRef == 1

\* a compileAllWithMiddlewares that builds a table when there are no
\* middlewares too; CompiledReplaced tells it from compileAllWithMiddlewares
compileAllWithMiddlewaresAlways(middlewares) == FreshRef

\* compileAllWithMiddlewares: the reference it returns (0: groupedHandlers itself)
compileAllWithMiddlewares(middlewares) ==
  IF Len(middlewares) = 0 THEN 0 ELSE FreshRef

\* a recompileHandlers that builds the table once and keeps it afterwards;
\* CompiledReflectsRegistration tells it from recompileHandlers
recompileHandlersOnce(grouped, middlewares) ==
  LET ref == compileAllWithMiddlewares(middlewares) IN
    IF compiledHandlers # 0
      THEN UNCHANGED <<compiledHandlers, tables>>
      ELSE /\ compiledHandlers' = ref
           /\ tables' = [r \in {ref} \ {0} |-> CompiledTable(grouped)]

\* recompileHandlers, run on the new route table and the new middleware array
recompileHandlers(grouped, middlewares) ==
  LET ref == compileAllWithMiddlewares(middlewares) IN
    /\ compiledHandlers' = ref
    /\ tables' = [r \in {ref} \ {0} |-> CompiledTable(grouped)]

RouteCount(grouped) ==
  LET RECURSIVE Sum(_)
      Sum(S) == IF S = {} THEN 0
                ELSE LET m == CHOOSE x \in S : TRUE IN Len(grouped[m]) + Sum(S \ {m})
  IN Sum(DOMAIN grouped)

-----------------------------------------------------------------------------
(* Registration (server.ts:333-359, 573-661).                              *)

PathError == "path must be of type string, function or RegEx"
HandlerError == "handler must be a function"
OptionsError == "optionsOrMiddlewares must be an object or array"
RouteMiddlewaresError == "optionsOrMiddlewares must be an array of functions"
UseError == "middlewares must be a list of functions"
SetterError == "handler must be a function"

\* the server itself, as the value a call returns
Flitz == "flitz"

\* `return opts.server` / `return this` / `return flitz` in the call `by`
Returns(value, by) == [value |-> value, error |-> "", message |-> "", by |-> by]

\* `throw new TypeError(message)` in the call `by`
Throws(message, by) == [value |-> "", error |-> "TypeError", message |-> message, by |-> by]

\* a check that also wants a string path to be non-empty; EmptyPathAccepted
\* tells it from the check of server.ts:574-583
PathTypeOkNonEmpty(path) ==
  \/ typeOf(path) = "string" /\ path.s # <<>>
  \/ path.t = "regexp"
  \/ typeOf(path) = "function"

\* server.ts:574-583: the path is a string, a RegExp or a function
PathTypeOk(path) ==
  \/ typeOf(path) = "string"
  \/ path.t = "regexp"
  \/ typeOf(path) = "function"

\* a reading of the arguments that takes the second one as the handler in every
\* call shape; RegistrationFailsWhole tells it from server.ts:585-595
HandlerArgSecond(args) == Arg(args, 1)

\* server.ts:585-595: the handler is the last of two, the third of three
HandlerArg(args) == IF Len(args) < 3 THEN Arg(args, 1) ELSE Arg(args, 2)

OptionsOrMiddlewaresArg(args) == IF Len(args) < 3 THEN Undefined ELSE Arg(args, 1)

\* server.ts:601-619: the options record the three call shapes come to
Options(args) ==
  LET oom == OptionsOrMiddlewaresArg(args) IN
    IF Truthy(oom)
      THEN IF oom.t = "array" THEN Obj(oom)
           ELSE IF typeOf(oom) = "function" THEN Obj(Arr(<<oom>>))
           ELSE oom
      ELSE Obj(Undefined)

\* server.ts:574-628: the TypeError withMethod throws, "" when it throws none
withMethodError(args) ==
  LET options == Options(args) IN
    IF ~PathTypeOk(Arg(args, 0)) THEN PathError
    ELSE IF typeOf(HandlerArg(args)) # "function" THEN HandlerError
    ELSE IF typeOf(options) # "object" THEN OptionsError
    ELSE IF \E k \in 1..UseLength(options) : typeOf(options.use.items[k]) # "function"
         THEN RouteMiddlewaresError
    ELSE ""

\* server.ts:630-633: the bucket of the method, created empty when missing
WithBucket(grouped, method) ==
  [m \in DOMAIN grouped \cup {method} |-> IF m \in DOMAIN grouped THEN grouped[m] ELSE <<>>]

\* server.ts:635-642: the handler, wrapped with the route's own middlewares
RouteHandler(args) ==
  IF UseLength(Options(args)) > 0
    THEN mergeHandler(UserHandler(HandlerArg(args)), ArrayCopy(Options(args).use.items))
    ELSE UserHandler(HandlerArg(args))

\* server.ts:644-652
RouteValidator(path) ==
  IF typeOf(path) = "function" THEN isPathValidByFunction(path)
  ELSE IF path.t = "regexp" THEN isPathValidByRegex(path)
  ELSE isPathValidByString(path)

\* a push() that leaves out a route the bucket has already; NoDeduplication
\* tells it from PushRoute
PushRouteOnce(grouped, method, args) ==
  LET entry == [handler |-> RouteHandler(args),
                isPathValid |-> RouteValidator(Arg(args, 0))]
      bucket == WithBucket(grouped, method)[method]
  IN IF \E k \in 1..Len(bucket) : bucket[k] = entry
       THEN WithBucket(grouped, method)
       ELSE [WithBucket(grouped, method) EXCEPT ![method] = Append(@, entry)]

\* an unshift() in the place of the push(); AppendOnly tells it from PushRoute
PushRouteFront(grouped, method, args) ==
  [WithBucket(grouped, method) EXCEPT
     ![method] = <<[handler |-> RouteHandler(args),
                    isPathValid |-> RouteValidator(Arg(args, 0))]>> \o @]

\* server.ts:654-657: push() on the bucket of the method
PushRoute(grouped, method, args) ==
  [WithBucket(grouped, method) EXCEPT
     ![method] = Append(@, [handler |-> RouteHandler(args),
                            isPathValid |-> RouteValidator(Arg(args, 0))])]

\* a withMethod that creates the bucket of the method (server.ts:630-633) ahead
\* of its checks; PathRejected tells it from withMethod
withMethodBucketFirst(method, args) ==
  LET error == withMethodError(args) IN
  IF error # ""
    THEN /\ ret' = Throws(error, "withMethod")
         /\ groupedHandlers' = WithBucket(groupedHandlers, method)
         /\ UNCHANGED <<errorHandler, notFoundHandler, globalMiddleWares,
                        compiledHandlers, tables, reqs, instance, promises, peer, self, disk, lastIndex>>
    ELSE /\ RouteCount(groupedHandlers) < MaxRoutes
         /\ groupedHandlers' = PushRoute(groupedHandlers, method, args)
         /\ recompileHandlers(groupedHandlers', globalMiddleWares)
         /\ ret' = Returns(Flitz, "withMethod")
         /\ UNCHANGED <<errorHandler, notFoundHandler, globalMiddleWares, reqs, instance, promises, peer, self, disk, lastIndex>>

\* a withMethod that returns nothing; RegistrationReturnsSelf tells it from
\* withMethod
withMethodReturningNothing(method, args) ==
  LET error == withMethodError(args) IN
  IF error # ""
    THEN /\ ret' = Throws(error, "withMethod")
         /\ UNCHANGED <<serverVars, reqs, peer, self, disk, lastIndex>>
    ELSE /\ RouteCount(groupedHandlers) < MaxRoutes
         /\ groupedHandlers' = PushRoute(groupedHandlers, method, args)
         /\ recompileHandlers(groupedHandlers', globalMiddleWares)
         /\ ret' = Returns("undefined", "withMethod")
         /\ UNCHANGED <<errorHandler, notFoundHandler, globalMiddleWares, reqs, instance, promises, peer, self, disk, lastIndex>>

\* flitz.get(...), flitz.post(...), ...: withMethod as a whole
withMethod(method, args) ==
  LET error == withMethodError(args) IN
  IF error # ""
    THEN /\ ret' = Throws(error, "withMethod")
         /\ UNCHANGED <<serverVars, reqs, peer, self, disk, lastIndex>>
    ELSE /\ RouteCount(groupedHandlers) < MaxRoutes
         /\ groupedHandlers' = PushRoute(groupedHandlers, method, args)
         /\ recompileHandlers(groupedHandlers', globalMiddleWares)
         /\ ret' = Returns(Flitz, "withMethod")
         /\ UNCHANGED <<errorHandler, notFoundHandler, globalMiddleWares, reqs, instance, promises, peer, self, disk, lastIndex>>

\* a use() that pushes its arguments one by one and throws at the first that
\* is not a function; UseRejected tells it from use
usePushingFirst(middlewares) ==
  LET bad == {k \in 1..Len(middlewares) : typeOf(middlewares[k]) # "function"}
      first == CHOOSE k \in bad : \A j \in bad : k <= j
  IN IF bad # {}
       THEN /\ ret' = Throws(UseError, "use")
            /\ globalMiddleWares' =
                 globalMiddleWares \o [k \in 1..(first - 1) |-> middlewares[k].id]
            /\ UNCHANGED <<errorHandler, notFoundHandler, groupedHandlers,
                           compiledHandlers, tables, reqs, instance, promises, peer, self, disk, lastIndex>>
       ELSE /\ Len(globalMiddleWares) + Len(middlewares) <= MaxGlobals
            /\ globalMiddleWares' =
                 globalMiddleWares \o [k \in 1..Len(middlewares) |-> middlewares[k].id]
            /\ recompileHandlers(groupedHandlers, globalMiddleWares')
            /\ ret' = Returns(Flitz, "use")
            /\ UNCHANGED <<errorHandler, notFoundHandler, groupedHandlers, reqs, instance, promises, peer, self, disk, lastIndex>>

\* a use() that puts its arguments before the middlewares there are;
\* InFlightSeesOneTable tells it from use
usePrepending(middlewares) ==
  IF \E k \in 1..Len(middlewares) : typeOf(middlewares[k]) # "function"
    THEN /\ ret' = Throws(UseError, "use")
         /\ UNCHANGED <<serverVars, reqs, peer, self, disk, lastIndex>>
    ELSE /\ Len(globalMiddleWares) + Len(middlewares) <= MaxGlobals
         /\ globalMiddleWares' =
              [k \in 1..Len(middlewares) |-> middlewares[k].id] \o globalMiddleWares
         /\ recompileHandlers(groupedHandlers, globalMiddleWares')
         /\ ret' = Returns(Flitz, "use")
         /\ UNCHANGED <<errorHandler, notFoundHandler, groupedHandlers, reqs, instance, promises, peer, self, disk, lastIndex>>

\* a use() that leaves the compiled table as it is (no call of server.ts:390);
\* UseReachesRoutes tells it from use
useNoRecompile(middlewares) ==
  IF \E k \in 1..Len(middlewares) : typeOf(middlewares[k]) # "function"
    THEN /\ ret' = Throws(UseError, "use")
         /\ UNCHANGED <<serverVars, reqs, peer, self, disk, lastIndex>>
    ELSE /\ Len(globalMiddleWares) + Len(middlewares) <= MaxGlobals
         /\ globalMiddleWares' =
              globalMiddleWares \o [k \in 1..Len(middlewares) |-> middlewares[k].id]
         /\ ret' = Returns(Flitz, "use")
         /\ UNCHANGED <<errorHandler, notFoundHandler, groupedHandlers,
                        compiledHandlers, tables, reqs, instance, promises, peer, self, disk, lastIndex>>

\* server.ts:383-392: flitz.use(...middlewares)
use(middlewares) ==
  IF \E k \in 1..Len(middlewares) : typeOf(middlewares[k]) # "function"
    THEN /\ ret' = Throws(UseError, "use")
         /\ UNCHANGED <<serverVars, reqs, peer, self, disk, lastIndex>>
    ELSE /\ Len(globalMiddleWares) + Len(middlewares) <= MaxGlobals
         /\ globalMiddleWares' =
              globalMiddleWares \o [k \in 1..Len(middlewares) |-> middlewares[k].id]
         /\ recompileHandlers(groupedHandlers, globalMiddleWares')
         /\ ret' = Returns(Flitz, "use")
         /\ UNCHANGED <<errorHandler, notFoundHandler, groupedHandlers, reqs, instance, promises, peer, self, disk, lastIndex>>

\* a setErrorHandler that assigns before it checks; SetterRejected tells it
\* from setErrorHandler
setErrorHandlerAssigningFirst(handler) ==
  IF typeOf(handler) # "function"
    THEN /\ ret' = Throws(SetterError, "setErrorHandler")
         /\ errorHandler' = "notCallable"
         /\ UNCHANGED <<notFoundHandler, globalMiddleWares, groupedHandlers,
                        compiledHandlers, tables, reqs, instance, promises, peer, self, disk, lastIndex>>
    ELSE /\ errorHandler' = handler.id
         /\ ret' = Returns(Flitz, "setErrorHandler")
         /\ UNCHANGED <<notFoundHandler, globalMiddleWares, groupedHandlers,
                        compiledHandlers, tables, reqs, instance, promises, peer, self, disk, lastIndex>>

\* server.ts:361-368: flitz.setErrorHandler(handler)
setErrorHandler(handler) ==
  IF typeOf(handler) # "function"
    THEN /\ ret' = Throws(SetterError, "setErrorHandler")
         /\ UNCHANGED <<serverVars, reqs, peer, self, disk, lastIndex>>
    ELSE /\ errorHandler' = handler.id
         /\ ret' = Returns(Flitz, "setErrorHandler")
         /\ UNCHANGED <<notFoundHandler, globalMiddleWares, groupedHandlers,
                        compiledHandlers, tables, reqs, instance, promises, peer, self, disk, lastIndex>>

\* a setNotFoundHandler whose slot is one variable of the module, which all
\* the servers share; InstanceIsolation tells it from setNotFoundHandler
setNotFoundHandlerModuleLevel(handler) ==
  IF typeOf(handler) # "function"
    THEN /\ ret' = Throws(SetterError, "setNotFoundHandler")
         /\ UNCHANGED <<serverVars, reqs, peer, self, disk, lastIndex>>
    ELSE /\ notFoundHandler' = handler.id
         /\ peer' = [peer EXCEPT !.notFoundHandler = handler.id]
         /\ ret' = Returns(Flitz, "setNotFoundHandler")
         /\ UNCHANGED <<errorHandler, globalMiddleWares, groupedHandlers,
                        compiledHandlers, tables, reqs, instance, promises, self, disk, lastIndex>>

\* server.ts:370-377: flitz.setNotFoundHandler(handler)
setNotFoundHandler(handler) ==
  IF typeOf(handler) # "function"
    THEN /\ ret' = Throws(SetterError, "setNotFoundHandler")
         /\ UNCHANGED <<serverVars, reqs, peer, self, disk, lastIndex>>
    ELSE /\ notFoundHandler' = handler.id
         /\ ret' = Returns(Flitz, "setNotFoundHandler")
         /\ UNCHANGED <<errorHandler, globalMiddleWares, groupedHandlers,
                        compiledHandlers, tables, reqs, instance, promises, peer, self, disk, lastIndex>>

PortTypeError == "port must be a number"
PortRangeError == "port must be a valid number between 0 and 65535"

\* server.ts:399: the greatest port
MaxPort == 65535

\* the number that is not a number
NaN == [t |-> "number", nan |-> TRUE]

\* a range check without the upper end; ListenValidates tells it from PortInRange
PortInRangeNoUpper(port) == "n" \in DOMAIN port /\ port.n >= 0

\* server.ts:399: port >= 0 && port <= 65535, which is false of NaN
PortInRange(port) == "n" \in DOMAIN port /\ port.n >= 0 /\ port.n <= MaxPort

\* the http server createHttpServer(flitz) makes, with the port it was asked
\* to listen on and where the transport is with it: "binding" after
\* listen(port), then "listening" or "failed"; "closing" after close() on a
\* listening one, then "closed"
Server(port, state) == [t |-> "server", port |-> port, state |-> state]

\* the promises of a server nothing was asked of
NoPromises == [listen |-> "none", close |-> "none"]

\* server.ts:394-414: flitz.listen(port), up to the promise it returns
listen(port) ==
  IF typeOf(port) # "number"
    THEN /\ ret' = Throws(PortTypeError, "listen")
         /\ UNCHANGED <<serverVars, reqs, peer, self, disk, lastIndex>>
  ELSE IF ~PortInRange(port)
    THEN /\ ret' = Throws(PortRangeError, "listen")
         /\ UNCHANGED <<serverVars, reqs, peer, self, disk, lastIndex>>
  ELSE /\ instance' = Server(port.n, "binding")
       /\ promises' = [promises EXCEPT !.listen = "pending"]
       /\ ret' = Returns("promise", "listen")
       /\ UNCHANGED <<errorHandler, notFoundHandler, globalMiddleWares, groupedHandlers,
                      compiledHandlers, tables, reqs, peer, self, disk, lastIndex>>

\* flitz.close() as server.ts:1027-1037 has it, instance?.close: without a
\* server nothing is called and nothing settles the promise;
\* ListenAndCloseSettle tells it from close
closeOptional ==
  /\ promises' = [promises EXCEPT !.close = "pending"]
  /\ instance' = IF instance # Undefined /\ instance.state = "listening"
                   THEN [instance EXCEPT !.state = "closing"] ELSE instance
  /\ ret' = Returns("promise", "close")
  /\ UNCHANGED <<errorHandler, notFoundHandler, globalMiddleWares, groupedHandlers,
                 compiledHandlers, tables, reqs, peer, self, disk, lastIndex>>

\* server.ts:416-426: flitz.close(), up to the promise it returns.  Without a
\* server, instance!.close throws inside the executor and the promise is
\* rejected at once; with one, the callback given to instance.close settles it
close ==
  IF instance = Undefined
    THEN /\ promises' = [promises EXCEPT !.close = "rejected"]
         /\ ret' = Returns("promise", "close")
         /\ UNCHANGED <<errorHandler, notFoundHandler, globalMiddleWares, groupedHandlers,
                        compiledHandlers, tables, reqs, instance, peer, self, disk, lastIndex>>
    ELSE /\ promises' = [promises EXCEPT !.close = "pending"]
         /\ instance' = IF instance.state = "listening"
                          THEN [instance EXCEPT !.state = "closing"] ELSE instance
         /\ ret' = Returns("promise", "close")
         /\ UNCHANGED <<errorHandler, notFoundHandler, globalMiddleWares, groupedHandlers,
                        compiledHandlers, tables, reqs, peer, self, disk, lastIndex>>

\* server.ts:410-412: the transport has bound the port, the callback of
\* instance.listen resolves the promise of listen()
bound ==
  /\ instance # Undefined
  /\ instance.state = "binding"
  /\ instance' = [instance EXCEPT !.state = "listening"]
  /\ promises' = [promises EXCEPT !.listen = "resolved"]
  /\ UNCHANGED <<errorHandler, notFoundHandler, globalMiddleWares, groupedHandlers,
                 compiledHandlers, tables, ret, reqs, peer, self, disk, lastIndex>>

\* server.ts:406-408: the transport could not bind, the 'error' event
\* rejects the promise of listen()
bindFailed ==
  /\ instance # Undefined
  /\ instance.state = "binding"
  /\ instance' = [instance EXCEPT !.state = "failed"]
  /\ promises' = [promises EXCEPT !.listen = "rejected"]
  /\ UNCHANGED <<errorHandler, notFoundHandler, globalMiddleWares, groupedHandlers,
                 compiledHandlers, tables, ret, reqs, peer, self, disk, lastIndex>>

\* a callback of instance.close that forgets the server once it is released;
\* InstanceKept tells it from closed
closedForgetting ==
  /\ instance # Undefined
  /\ promises.close = "pending"
  /\ instance.state # "binding"
  /\ IF instance.state = "closing"
       THEN /\ instance' = Undefined
            /\ promises' = [promises EXCEPT !.close = "resolved"]
       ELSE /\ instance' = instance
            /\ promises' = [promises EXCEPT !.close = "rejected"]
  /\ UNCHANGED <<errorHandler, notFoundHandler, globalMiddleWares, groupedHandlers,
                 compiledHandlers, tables, ret, reqs, peer, self, disk, lastIndex>>

\* server.ts:418-424: the callback of instance.close: without an error when
\* the listener is released, with the error of the transport when the server
\* was not listening
closed ==
  /\ instance # Undefined
  /\ promises.close = "pending"
  /\ instance.state # "binding"
  /\ IF instance.state = "closing"
       THEN /\ instance' = [instance EXCEPT !.state = "closed"]
            /\ promises' = [promises EXCEPT !.close = "resolved"]
       ELSE /\ instance' = instance
            /\ promises' = [promises EXCEPT !.close = "rejected"]
  /\ UNCHANGED <<errorHandler, notFoundHandler, globalMiddleWares, groupedHandlers,
                 compiledHandlers, tables, ret, reqs, peer, self, disk, lastIndex>>

-----------------------------------------------------------------------------
(* The response of a request, as node's http.ServerResponse keeps it.      *)
(*   headersSent  the status line and the headers are on the wire          *)
(*   status       the status code sent, 0 while none is                    *)
(*   body         the chunks written                                       *)
(*   ended        end() has taken effect                                   *)
(*   ends         the calls of end() made                                  *)

NoResponse == [headersSent |-> FALSE, status |-> 0, body |-> <<>>, ended |-> FALSE, ends |-> 0]

\* res.writeHead(status) while no headers are sent (it throws when they are)
writeHead(res, status) == [res EXCEPT !.headersSent = TRUE, !.status = status]

\* the headers node sends by itself with the first write() or end(): 200
ImplicitHeader(res) == IF res.headersSent THEN res ELSE writeHead(res, 200)

\* res.write(data)
write(res, data) ==
  IF res.ended THEN res ELSE [ImplicitHeader(res) EXCEPT !.body = Append(@, data)]

\* res.end(): a second end() changes nothing
end(res) == [ImplicitHeader(res) EXCEPT !.ended = TRUE, !.ends = @ + 1]

\* a default error handler that writes 500 whatever was sent, and fails when
\* headers were; DefaultErrorHandlerGuarded tells it from defaultErrorHandler
defaultErrorHandlerUnguarded(res) ==
  IF res.headersSent
    THEN [res |-> res, st |-> "err"]
    ELSE [res |-> end(writeHead(res, 500)), st |-> "ok"]

\* part_002:27-35: the response it leaves, and how its promise settles
defaultErrorHandler(res) ==
  [res |-> end(IF ~res.headersSent THEN writeHead(res, 500) ELSE res), st |-> "ok"]

\* a default not-found handler that sends 404 and leaves the response open;
\* DefaultNotFound tells it from defaultNotFoundHandler
defaultNotFoundHandlerOpen(res) ==
  IF res.headersSent
    THEN [res |-> res, st |-> "err"]
    ELSE [res |-> writeHead(res, 404), st |-> "ok"]

\* part_002:40-43: writeHead(404) throws when headers are sent, and the
\* promise of the handler is rejected
defaultNotFoundHandler(res) ==
  IF res.headersSent
    THEN [res |-> res, st |-> "err"]
    ELSE [res |-> end(writeHead(res, 404)), st |-> "ok"]

-----------------------------------------------------------------------------
(* Static files (server.ts:379-381, 431-456, 480-517, 527-545).  A path is *)
(* the sequence of its characters; the disk gives the bytes of each        *)
(* regular file by its absolute path, the directories are fixed.           *)

BasePathError == "basePath must be a function"
RootDirError == "rootDir must be a function"

\* process.cwd()
Cwd == <<"/", "w">>

\* the directories there are
Directories == { <<"/", "w">>, <<"/", "w", "/", "p">>, <<"/", "w", "/", "p", "/", "s">> }

\* the regular files there may be
FileA == <<"/", "w", "/", "p", "/", "a">>
FileB == <<"/", "w", "/", "p", "/", "s", "/", "b">>

\* a disk without regular files
NoFiles == [p \in {} |-> ""]

\* String.prototype.startsWith
startsWith(s, prefix) ==
  Len(prefix) <= Len(s) /\ \A k \in 1..Len(prefix) : s[k] = prefix[k]

\* String.prototype.endsWith('/')
endsWithSlash(s) == Len(s) > 0 /\ s[Len(s)] = "/"

\* path.isAbsolute
isAbsolutePath(p) == Len(p) > 0 /\ p[1] = "/"

\* path.normalize for paths without "." and ".." segments: runs of
\* separators become one
RECURSIVE normalize(_)
normalize(p) ==
  IF Len(p) < 2 THEN p
  ELSE IF p[1] = "/" /\ p[2] = "/" THEN normalize(Tail(p))
  ELSE <<p[1]>> \o normalize(Tail(p))

\* path.join of two parts: empty parts are left out
joinPath(a, b) ==
  IF b = <<>> THEN normalize(a)
  ELSE IF a = <<>> THEN normalize(b)
  ELSE normalize(a \o <<"/">> \o b)

\* a path without the separator it ends with
Trimmed(p) == IF Len(p) > 1 /\ endsWithSlash(p) THEN SubSeq(p, 1, Len(p) - 1) ELSE p

\* the path is that of something in the directory, at any depth
Under(dir, p) == startsWith(p, Trimmed(dir) \o <<"/">>) /\ Len(p) > Len(Trimmed(dir)) + 1

\* path.relative(rootDir, fullPath) for a path under rootDir
relativePath(rootDir, fullPath) ==
  SubSeq(fullPath, Len(Trimmed(rootDir)) + 2, Len(fullPath))

\* fs.existsSync
existsSync(p) == Trimmed(p) \in Directories \/ p \in DOMAIN disk

\* server.ts:537-542: the key a file is kept under
FileKey(rootDir, basePath, fullPath) ==
  basePath \o (IF endsWithSlash(basePath) THEN <<>> ELSE <<"/">>)
           \o relativePath(rootDir, fullPath)

\* a loadAllFiles that keeps each file under its path below rootDir alone;
\* CachedServesByKey tells it from loadAllFiles
loadAllFilesRelative(rootDir, basePath) ==
  LET found == {p \in DOMAIN disk : Under(rootDir, p)}
  IN [key \in {<<"/">> \o relativePath(rootDir, p) : p \in found} |->
        disk[CHOOSE p \in found : <<"/">> \o relativePath(rootDir, p) = key]]

\* server.ts:527-545: what the walk of rootDir leaves in `files`: one entry
\* for every regular file in rootDir or in a directory below it, with the
\* bytes readFileSync gives now
loadAllFiles(rootDir, basePath) ==
  LET found == {p \in DOMAIN disk : Under(rootDir, p)}
  IN [key \in {FileKey(rootDir, basePath, p) : p \in found} |->
        disk[CHOOSE p \in found : FileKey(rootDir, basePath, p) = key]]

\* server.ts:498-513: the handler with the files read at registration
createStaticHandlerCached(rootDir, basePath) ==
  [kind |-> "static", id |-> "static", cache |-> TRUE, rootDir |-> rootDir,
   files |-> loadAllFiles(rootDir, basePath)]

\* server.ts:480-496: the handler that looks at the disk for every request
createStaticHandler(rootDir) ==
  [kind |-> "static", id |-> "static", cache |-> FALSE, rootDir |-> rootDir,
   files |-> NoFiles]

\* server.ts:515-517
createStaticPathValidator(basePath) == [kind |-> "startsWith", basePath |-> basePath]

\* the value of a call that returns nothing
Nothing == "undefined"

\* fs.readdirSync of a directory that is not there
NoSuchDirectory(by) == [value |-> "", error |-> "Error", message |-> "ENOENT", by |-> by]

\* server.ts:431-456: addStatic, which has no return statement
addStatic(basePath, rootDir, cache) ==
  LET root == IF isAbsolutePath(rootDir.s) THEN rootDir.s ELSE joinPath(Cwd, rootDir.s)
      handler == IF Truthy(cache) THEN createStaticHandlerCached(root, basePath.s)
                 ELSE createStaticHandler(root)
  IN IF typeOf(basePath) # "string"
       THEN /\ ret' = Throws(BasePathError, "static")
            /\ UNCHANGED <<serverVars, reqs, peer, self, disk, lastIndex>>
     ELSE IF typeOf(rootDir) # "string"
       THEN /\ ret' = Throws(RootDirError, "static")
            /\ UNCHANGED <<serverVars, reqs, peer, self, disk, lastIndex>>
     ELSE IF Truthy(cache) /\ Trimmed(root) \notin Directories
       THEN /\ ret' = NoSuchDirectory("static")
            /\ UNCHANGED <<serverVars, reqs, peer, self, disk, lastIndex>>
     ELSE /\ RouteCount(groupedHandlers) < MaxRoutes
          /\ groupedHandlers' =
               [WithBucket(groupedHandlers, "GET") EXCEPT
                  !["GET"] = Append(@, [handler |-> handler,
                                        isPathValid |-> createStaticPathValidator(basePath.s)])]
          /\ recompileHandlers(groupedHandlers', globalMiddleWares)
          /\ ret' = Returns(Nothing, "static")
          /\ UNCHANGED <<errorHandler, notFoundHandler, globalMiddleWares, reqs,
                         instance, promises, peer, self, disk, lastIndex>>

\* server.ts:379-381: flitz.static(basePath, rootDir, cache = true) returns
\* what addStatic returns
static(basePath, rootDir, cache) ==
  addStatic(basePath, rootDir, IF cache = Undefined THEN Bool(TRUE) ELSE cache)

-----------------------------------------------------------------------------
(* One request (server.ts:313-325, 552-570).                               *)
(*   pc     where the dispatcher's async function is                       *)
(*   idx    the place in the bucket of the route find() returned, 0: none  *)
(*   g0     the global middlewares when the request was dispatched         *)
(*   chains one entry per call of a function mergeHandler returned, with   *)
(*          its own cursor i                                               *)
(*   acts   the functions of the caller invoked for the request, in the    *)
(*          order of their invocation                                      *)
(*   errs   the invocations of the error handler, each with the failure   *)
(*          it was given (the place in acts of the function that failed)   *)
(*   res    the response                                                   *)
(*   tested the validators find() asked, in order: the method of the bucket *)
(*          and the place in it                                            *)

DefaultErrorHandler == "defaultErrorHandler"
DefaultNotFoundHandler == "defaultNotFoundHandler"

NoRequest ==
  [pc |-> "none", method |-> "", url |-> <<>>, idx |-> 0, g0 |-> <<>>,
   chains |-> <<>>, acts |-> <<>>, errs |-> {}, res |-> NoResponse, tested |-> <<>>]

\* a function of the caller is invoked; it has thrown at once, or it runs
Act(fn, role, chain, catch, throws) ==
  [fn |-> fn, role |-> role, chain |-> chain, catch |-> catch,
   st |-> IF throws THEN "threw" ELSE "run", nexts |-> 0]

\* a handleError that drops the failure; MiddlewareFailureHandledOnce tells it
\* from handleError
handleErrorDropped(r, err, eho) == r

\* a handleError that keeps the error handler the server was created with;
\* SlotReplacement tells it from handleError
handleErrorCaptured(r, err, eho) ==
  [r EXCEPT !.errs = @ \cup {[fn |-> DefaultErrorHandler, err |-> err,
                                via |-> "handleError", st |-> "ok"]}]

\* server.ts:555-557: handleError reads the slot when the failure arrives;
\* nothing awaits the promise of the error handler, eho is how it settles
handleError(r, err, eho) ==
  IF errorHandler = DefaultErrorHandler
    THEN LET d == defaultErrorHandler(r.res)
         IN [r EXCEPT !.errs = @ \cup {[fn |-> errorHandler, err |-> err,
                                         via |-> "handleError", st |-> d.st]},
                      !.res = d.res]
    ELSE [r EXCEPT !.errs = @ \cup {[fn |-> errorHandler, err |-> err,
                                       via |-> "handleError", st |-> eho]}]

\* a catch of the dispatcher that ends the request without the error handler;
\* FailureReachesErrorHandler tells it from dispatcherCatch
dispatcherCatchSilent(r, err) == [r EXCEPT !.pc = "done"]

\* server.ts:322-324: the catch of the dispatcher awaits the error handler;
\* the default one (part_002:27-35) has no await and is settled when it returns
dispatcherCatch(r, err) ==
  IF errorHandler = DefaultErrorHandler
    THEN LET d == defaultErrorHandler(r.res)
         IN [r EXCEPT !.errs = @ \cup {[fn |-> errorHandler, err |-> err,
                                         via |-> "dispatcher", st |-> d.st]},
                      !.res = d.res,
                      !.pc = IF d.st = "ok" THEN "done" ELSE "failed"]
    ELSE [r EXCEPT !.errs = @ \cup {[fn |-> errorHandler, err |-> err,
                                       via |-> "dispatcher", st |-> "run"]},
                   !.pc = "erroring"]

\* a handler of static() that leaves a path it has no file for to the
\* not-found handler; StaticAnswersNotFound tells it from StaticNotFound
StaticNotFoundFallthrough(r, catch) ==
  [r |-> [r EXCEPT !.acts = Append(@, [Act(notFoundHandler, "notFound", 0, catch, FALSE)
                                         EXCEPT !.st = "ok"]),
                   !.res = end(writeHead(@, 404))],
   out |-> "resolved"]

\* server.ts:493-494, 508-511: the handler of static() answers 404; writeHead
\* throws when headers are sent, and the promise of the handler is rejected
StaticNotFound(r, catch) ==
  IF r.res.headersSent
    THEN [r |-> [r EXCEPT !.acts = Append(@, [Act("static", "handler", 0, catch, FALSE)
                                               EXCEPT !.st = "err"])],
          out |-> "rejected"]
    ELSE [r |-> [r EXCEPT !.acts = Append(@, [Act("static", "handler", 0, catch, FALSE)
                                               EXCEPT !.st = "ok"]),
                          !.res = end(writeHead(@, 404))],
          out |-> "resolved"]

\* server.ts:501-512: the handler of static() with a cache, which has no await
StaticCached(r, h, catch) ==
  IF r.url \in DOMAIN h.files /\ ~r.res.headersSent
    THEN [r |-> [r EXCEPT !.acts = Append(@, [Act("static", "handler", 0, catch, FALSE)
                                               EXCEPT !.st = "ok"]),
                          !.res = end(write(writeHead(@, 200), h.files[r.url]))],
          out |-> "resolved"]
    ELSE StaticNotFound(r, catch)

\* server.ts:481-495: the handler of static() without a cache, up to its await
\* of fs.promises.stat
StaticUncached(r, h, catch) ==
  LET fullPath == joinPath(h.rootDir, r.url) IN
    IF existsSync(fullPath)
      THEN [r |-> [r EXCEPT !.acts =
                     Append(@, [fn |-> "static", role |-> "handler", chain |-> 0,
                                catch |-> catch, st |-> "stat", nexts |-> 0,
                                fullPath |-> fullPath])],
            out |-> "promise"]
      ELSE StaticNotFound(r, catch)

RECURSIVE callHandler(_, _, _, _, _)
RECURSIVE next(_, _, _, _)

\* handler(req, res) for a handler of the table: a function of the caller
\* (it throws at once, or it gives its promise), or a function mergeHandler
\* returned (server.ts:552-570: a new cursor i = -1, then next(); being async
\* it never throws, its promise is resolved at once, or rejected when next() threw)
callHandler(r, h, catch, throws, eho) ==
  IF h.kind = "fn"
    THEN [r |-> [r EXCEPT !.acts = Append(@, Act(h.id, "handler", 0, catch, throws))],
          out |-> IF throws THEN "throws" ELSE "promise"]
  ELSE IF h.kind = "static"
    THEN IF h.cache THEN StaticCached(r, h, catch) ELSE StaticUncached(r, h, catch)
    ELSE LET c == Len(r.chains) + 1
             r1 == [r EXCEPT !.chains = Append(@, [handler |-> h.handler,
                                                    middlewares |-> h.middlewares,
                                                    i |-> -1])]
             res == next(r1, c, throws, eho)
         IN [r |-> res.r, out |-> IF res.out = "throws" THEN "rejected" ELSE "resolved"]

\* a next() whose cursor belongs to the handler mergeHandler made and not to
\* the call of it: the requests that go through the handler share it;
\* ConcurrentChains tells it from next
nextSharedCursor(r, c, throws, eho) ==
  LET cursors == {r.chains[c].i} \cup
                 {reqs[id].chains[c].i : id \in {j \in DOMAIN reqs : Len(reqs[j].chains) >= c}}
      i == (CHOOSE m \in cursors : \A n \in cursors : n <= m) + 1
      mws == Items(r.chains[c].middlewares)
      r1 == [r EXCEPT !.chains[c].i = i]
  IN IF i + 1 <= Len(mws)
       THEN [r |-> [r1 EXCEPT !.acts =
                      Append(@, Act(mws[i + 1], "mw", c, "handleError", throws))],
             out |-> IF throws THEN "throws" ELSE "ok"]
       ELSE LET res == callHandler(r1, r.chains[c].handler, "handleError", throws, eho)
            IN IF res.out = "rejected"
                 THEN [r |-> handleError(res.r, Len(res.r.acts), eho), out |-> "ok"]
                 ELSE [r |-> res.r, out |-> IF res.out = "throws" THEN "throws" ELSE "ok"]

\* a next() that does nothing once the middlewares are through;
\* ChainProgress tells it from next
nextWithoutHandler(r, c, throws, eho) ==
  LET i == r.chains[c].i + 1
      mws == Items(r.chains[c].middlewares)
      r1 == [r EXCEPT !.chains[c].i = i]
  IN IF i + 1 <= Len(mws)
       THEN [r |-> [r1 EXCEPT !.acts =
                      Append(@, Act(mws[i + 1], "mw", c, "handleError", throws))],
             out |-> IF throws THEN "throws" ELSE "ok"]
       ELSE [r |-> r1, out |-> "ok"]

\* server.ts:559-567: next() of chain c.  The function it invokes either runs
\* (its promise gets .catch(handleError)) or throws out of next()
next(r, c, throws, eho) ==
  LET i == r.chains[c].i + 1
      mws == Items(r.chains[c].middlewares)
      r1 == [r EXCEPT !.chains[c].i = i]
  IN IF i + 1 <= Len(mws)
       THEN [r |-> [r1 EXCEPT !.acts =
                      Append(@, Act(mws[i + 1], "mw", c, "handleError", throws))],
             out |-> IF throws THEN "throws" ELSE "ok"]
       ELSE LET res == callHandler(r1, r.chains[c].handler, "handleError", throws, eho)
            IN IF res.out = "rejected"
                 THEN [r |-> handleError(res.r, Len(res.r.acts), eho), out |-> "ok"]
                 ELSE [r |-> res.r, out |-> IF res.out = "throws" THEN "throws" ELSE "ok"]

\* a lookup that takes the first route of the bucket without asking its
\* validator; NotFoundFallthrough tells it from FirstMatch
FirstPlace(bucket, req) == IF Len(bucket) > 0 THEN 1 ELSE 0

\* a lookup that keeps the last place whose validator accepts; FirstMatchWins
\* tells it from FirstMatch
LastMatch(bucket, req) ==
  IF \E k \in 1..Len(bucket) : IsPathValid(bucket[k].isPathValid, req)
    THEN CHOOSE k \in 1..Len(bucket) :
           /\ IsPathValid(bucket[k].isPathValid, req)
           /\ \A j \in (k + 1)..Len(bucket) : ~IsPathValid(bucket[j].isPathValid, req)
    ELSE 0

RECURSIVE findEvery(_, _, _, _, _)
RECURSIVE findPastThrow(_, _, _, _, _)
RECURSIVE find(_, _, _, _, _)

\* a find() that asks every validator of the bucket and then takes the first
\* that accepted; MatchersShortCircuit tells it from find
findEvery(bucket, req, k, li, tested) ==
  IF k > Len(bucket)
    THEN [idx |-> 0, threw |-> FALSE, li |-> li, tested |-> tested]
    ELSE LET t == Test(bucket[k].isPathValid, req, li)
             rest == findEvery(bucket, req, k + 1, t.li, Append(tested, k))
         IN IF t.threw
              THEN [idx |-> 0, threw |-> TRUE, li |-> t.li, tested |-> Append(tested, k)]
            ELSE IF t.ok /\ ~rest.threw THEN [rest EXCEPT !.idx = k]
            ELSE rest

\* a find() that takes a validator that throws as one that refuses;
\* ThrowingPredicate tells it from find
findPastThrow(bucket, req, k, li, tested) ==
  IF k > Len(bucket)
    THEN [idx |-> 0, threw |-> FALSE, li |-> li, tested |-> tested]
    ELSE LET t == Test(bucket[k].isPathValid, req, li)
         IN IF t.ok
              THEN [idx |-> k, threw |-> FALSE, li |-> t.li, tested |-> Append(tested, k)]
              ELSE findPastThrow(bucket, req, k + 1, t.li, Append(tested, k))

\* Array.prototype.find over the bucket, from the place k on: the validators
\* are asked in order until one accepts or throws.  idx is the place of the
\* one that accepted (0: none), tested the places asked, li the lastIndex
\* values the tests leave
find(bucket, req, k, li, tested) ==
  IF k > Len(bucket)
    THEN [idx |-> 0, threw |-> FALSE, li |-> li, tested |-> tested]
    ELSE LET t == Test(bucket[k].isPathValid, req, li)
         IN IF t.threw
              THEN [idx |-> 0, threw |-> TRUE, li |-> t.li, tested |-> Append(tested, k)]
            ELSE IF t.ok
              THEN [idx |-> k, threw |-> FALSE, li |-> t.li, tested |-> Append(tested, k)]
            ELSE find(bucket, req, k + 1, t.li, Append(tested, k))

\* the place find() returns the route of
FirstMatch(bucket, req) == find(bucket, req, 1, lastIndex, <<>>).idx

\* how the error handler in the slot may settle when nothing awaits it
ErrorOutcomes == IF errorHandler = DefaultErrorHandler THEN {"ok"} ELSE {"ok", "err"}

\* a request is over: the dispatcher has returned and no function is running
Finished(r) ==
  /\ r.pc \in {"none", "done", "failed"}
  /\ \A k \in 1..Len(r.acts) : r.acts[k].st \notin {"run", "stat"}

\* a dispatcher that runs the global middlewares before the not-found handler;
\* GlobalsSkippedOnNotFound tells it from flitz
flitzGlobalsOnNotFound(method, url, throws, eho) ==
  LET req == [method |-> method, url |-> url]
      bucket == Bucket(Compiled, method)
      found == find(bucket, req, 1, lastIndex, <<>>)
      idx == IF found.threw THEN 0 ELSE FirstMatch(bucket, req)
      r0 == [NoRequest EXCEPT !.method = method, !.url = url, !.idx = idx,
                              !.g0 = globalMiddleWares,
                              !.tested = [j \in 1..Len(found.tested) |->
                                            <<method, found.tested[j]>>]]
      h == IF idx > 0
             THEN bucket[idx].handler
             ELSE mergeHandler([kind |-> "fn", id |-> notFoundHandler], GlobalArray)
      res == callHandler(r0, h, "dispatcher", throws, eho)
  IN IF found.threw
       THEN dispatcherCatch(r0, 0)
       ELSE CASE res.out = "promise" -> [res.r EXCEPT !.pc = "handling"]
              [] res.out = "resolved" -> [res.r EXCEPT !.pc = "done"]
              [] OTHER -> dispatcherCatch(res.r, Len(res.r.acts))

\* server.ts:313-325: the dispatcher up to its first await
flitz(method, url, throws, eho) ==
  LET req == [method |-> method, url |-> url]
      bucket == Bucket(Compiled, method)
      found == find(bucket, req, 1, lastIndex, <<>>)
      idx == IF found.threw THEN 0 ELSE FirstMatch(bucket, req)
      r0 == [NoRequest EXCEPT !.method = method, !.url = url, !.idx = idx,
                              !.g0 = globalMiddleWares,
                              !.tested = [j \in 1..Len(found.tested) |->
                                            <<method, found.tested[j]>>]]
  IN IF found.threw
       THEN dispatcherCatch(r0, 0)
     ELSE IF idx > 0
       THEN LET res == callHandler(r0, bucket[idx].handler, "dispatcher", throws, eho)
            IN CASE res.out = "promise" -> [res.r EXCEPT !.pc = "handling"]
                 [] res.out = "resolved" -> [res.r EXCEPT !.pc = "done"]
                 [] OTHER -> dispatcherCatch(res.r, Len(res.r.acts))
       ELSE IF notFoundHandler = DefaultNotFoundHandler
         THEN LET d == defaultNotFoundHandler(r0.res)
                  r1 == [r0 EXCEPT !.acts = <<[Act(notFoundHandler, "notFound", 0,
                                                   "dispatcher", FALSE)
                                                 EXCEPT !.st = d.st]>>,
                                   !.res = d.res]
              IN IF d.st = "ok" THEN [r1 EXCEPT !.pc = "done"] ELSE dispatcherCatch(r1, 1)
       ELSE IF throws
         THEN dispatcherCatch(
                [r0 EXCEPT !.acts = <<Act(notFoundHandler, "notFound", 0, "dispatcher", TRUE)>>],
                1)
       ELSE [r0 EXCEPT !.pc = "notFound",
                       !.acts = <<Act(notFoundHandler, "notFound", 0, "dispatcher", FALSE)>>]

-----------------------------------------------------------------------------
(* The calls and the requests the environment makes.                       *)

Methods == {"GET", "POST"}
Urls == {PathA, PathB}
Requests == {1, 2}
\* the requests of the sequential specification: one at a time
SoloRequests == {1}

NotCallable == Num(42)

\* the argument lists of flitz.get(...)
GetArgs ==
  { <<Str(PathA), Fn("H1")>>,
    <<RegExpV(<<"a">>), Fn("H2")>>,
    <<Fn("pAll"), Fn("H2")>>,
    <<Str(PathEmpty), Fn("H1")>>,
    <<Str(PathA), Arr(<<Fn("r1")>>), Fn("H2")>>,
    <<Str(PathA), Fn("r1"), Fn("H2")>>,
    <<Str(PathA), Obj(Arr(<<Fn("r1")>>)), Fn("H2")>>,
    <<NotCallable, Fn("H1")>>,
    <<Obj(Undefined), Fn("H1")>>,
    <<Undefined, Fn("H1")>>,
    <<Str(PathA)>>,
    <<Str(PathA), NotCallable>>,
    <<Str(PathA), Arr(<<Fn("r1")>>), NotCallable>>,
    <<Str(PathA), Fn("r1"), NotCallable>>,
    <<Str(PathEmpty), NotCallable>>,
    <<Str(PathA), Arr(<<Fn("r1"), NotCallable>>), Fn("H1")>>,
    <<Str(PathA), Obj(Arr(<<NotCallable>>)), Fn("H1")>>,
    <<Str(PathA), Str(PathB), Fn("H1")>> }

\* the argument lists of flitz.post(...)
PostArgs ==
  { <<Str(PathA), Fn("H1")>>,
    <<NotCallable, Fn("H1")>> }

RegisterArgs(method) == IF method = "GET" THEN GetArgs ELSE PostArgs

\* the argument lists among them that withMethod accepts and that make a
\* route some request of Urls reaches
RouteArgs(method) ==
  {args \in RegisterArgs(method) :
     /\ withMethodError(args) = ""
     /\ \E url \in Urls :
          IsPathValid(RouteValidator(Arg(args, 0)), [method |-> method, url |-> url])}

\* the argument lists of flitz.use(...)
UseArgs ==
  { <<>>, <<Fn("g1")>>, <<Fn("g2")>>, <<Fn("g1"), Fn("g2")>>,
    <<Fn("g1"), NotCallable>>, <<NotCallable>> }

\* the argument lists among them that add middlewares
MiddlewareArgs ==
  {middlewares \in UseArgs :
     /\ middlewares # <<>>
     /\ \A k \in 1..Len(middlewares) : typeOf(middlewares[k]) = "function"}

ErrorHandlerArgs == {Fn("E1"), NotCallable}
NotFoundHandlerArgs == {Fn("N1"), NotCallable}

-----------------------------------------------------------------------------
(* Actions.                                                                *)

\* server.ts:296-304: the closure a call of createServer() makes
createServer ==
  [errorHandler |-> DefaultErrorHandler,
   notFoundHandler |-> DefaultNotFoundHandler,
   globalMiddleWares |-> <<>>,
   groupedHandlers |-> [m \in {} |-> <<>>],
   compiledHandlers |-> 0,
   tables |-> [r \in {} |-> <<>>],
   instance |-> Undefined,
   promises |-> NoPromises]

Init ==
  /\ errorHandler = DefaultErrorHandler
  /\ notFoundHandler = DefaultNotFoundHandler
  /\ globalMiddleWares = <<>>
  /\ groupedHandlers = [m \in {} |-> <<>>]
  /\ compiledHandlers = 0
  /\ tables = [r \in {} |-> <<>>]
  /\ ret = Returns(Flitz, "createServer")
  /\ reqs = [id \in Requests |-> NoRequest]
  /\ instance = Undefined
  /\ promises = NoPromises
  /\ peer = createServer
  /\ self = "A"
  /\ disk = NoFiles
  /\ lastIndex = [re \in StatefulRegExps |-> 0]

Register == \E method \in Methods : \E args \in RegisterArgs(method) : withMethod(method, args)

Use == \E middlewares \in UseArgs : use(middlewares)

\* the calls of a set-up that goes through: routes and middlewares are added
RegisterRoute == \E method \in Methods : \E args \in RouteArgs(method) : withMethod(method, args)

UseMiddlewares == \E middlewares \in MiddlewareArgs : use(middlewares)

\* no request is with the dispatcher or with a function of the caller
Idle == \A id \in Requests : reqs[id].pc = "none"

SetErrorHandler == \E handler \in ErrorHandlerArgs : setErrorHandler(handler)

SetNotFoundHandler == \E handler \in NotFoundHandlerArgs : setNotFoundHandler(handler)

\* server.ts:315: the lastIndex values find() leaves for a request
Scanned(method, url) ==
  find(Bucket(Compiled, method), [method |-> method, url |-> url], 1, lastIndex, <<>>).li

\* the listener hands a request to the dispatcher
Dispatch(id) ==
  /\ reqs[id].pc = "none"
  /\ \E method \in Methods, url \in Urls, throws \in BOOLEAN, eho \in ErrorOutcomes :
       /\ reqs' = [reqs EXCEPT ![id] = flitz(method, url, throws, eho)]
       /\ lastIndex' = Scanned(method, url)
  /\ UNCHANGED <<serverVars, ret, peer, self, disk>>

\* a running middleware that has not called its next() calls it; when the
\* function next() invokes throws, the exception leaves next() inside the
\* middleware, which fails with it
MiddlewareCallsNext(id) ==
  \E k \in 1..Len(reqs[id].acts), throws \in BOOLEAN, eho \in ErrorOutcomes :
    LET r == reqs[id]
        res == next([r EXCEPT !.acts[k].nexts = @ + 1], r.acts[k].chain, throws, eho)
    IN /\ r.acts[k].role = "mw"
       /\ r.acts[k].st = "run"
       /\ r.acts[k].nexts = 0
       /\ reqs' = [reqs EXCEPT ![id] =
                     IF res.out = "throws"
                       THEN handleError([res.r EXCEPT !.acts[k].st = "err"],
                                        Len(res.r.acts), eho)
                       ELSE res.r]
       /\ UNCHANGED <<serverVars, ret, peer, self, disk, lastIndex>>

\* server.ts:559-567: a running middleware that has called its next() calls
\* it once more; next() has no memory of the call before and moves the
\* cursor of the chain again
MiddlewareCallsNextAgain(id) ==
  \E k \in 1..Len(reqs[id].acts), throws \in BOOLEAN, eho \in ErrorOutcomes :
    LET r == reqs[id]
        res == next([r EXCEPT !.acts[k].nexts = @ + 1], r.acts[k].chain, throws, eho)
    IN /\ r.acts[k].role = "mw"
       /\ r.acts[k].st = "run"
       /\ r.acts[k].nexts = 1
       /\ reqs' = [reqs EXCEPT ![id] =
                     IF res.out = "throws"
                       THEN handleError([res.r EXCEPT !.acts[k].st = "err"],
                                        Len(res.r.acts), eho)
                       ELSE res.r]
       /\ UNCHANGED <<serverVars, ret, peer, self, disk, lastIndex>>

\* a chain that goes on by itself when a middleware is done without a call of
\* next(); ShortCircuit tells it from Settles
SettlesAdvancing(id) ==
  \E k \in 1..Len(reqs[id].acts), outcome \in {"ok", "err"}, eho \in ErrorOutcomes :
    LET r == reqs[id]
        r1 == [r EXCEPT !.acts[k].st = outcome]
    IN /\ r.acts[k].st = "run"
       /\ reqs' = [reqs EXCEPT ![id] =
                     IF r.acts[k].catch = "handleError"
                       THEN IF outcome = "err" THEN handleError(r1, k, eho)
                            ELSE IF r.acts[k].role = "mw" /\ r.acts[k].nexts = 0
                              THEN next(r1, r.acts[k].chain, FALSE, eho).r
                            ELSE r1
                       ELSE IF outcome = "err" THEN dispatcherCatch(r1, k)
                            ELSE [r1 EXCEPT !.pc = "done"]]
       /\ UNCHANGED <<serverVars, ret, peer, self, disk, lastIndex>>

\* a promise that settles only when no request that came before is still with
\* the server; SuspendedDoesNotBlock tells it from Settles
SettlesSerial(id) ==
  \E k \in 1..Len(reqs[id].acts), outcome \in {"ok", "err"}, eho \in ErrorOutcomes :
    LET r == reqs[id]
        r1 == [r EXCEPT !.acts[k].st = outcome]
    IN /\ r.acts[k].st = "run"
       /\ \A j \in DOMAIN reqs : j < id => Finished(reqs[j])
       /\ reqs' = [reqs EXCEPT ![id] =
                     IF r.acts[k].catch = "handleError"
                       THEN IF outcome = "err" THEN handleError(r1, k, eho) ELSE r1
                       ELSE IF outcome = "err" THEN dispatcherCatch(r1, k)
                            ELSE [r1 EXCEPT !.pc = "done"]]
       /\ UNCHANGED <<serverVars, ret, peer, self, disk, lastIndex>>

\* the promise of a running function settles: .catch(handleError) for one
\* invoked by next(), the await of the dispatcher for one it invoked itself
Settles(id) ==
  \E k \in 1..Len(reqs[id].acts), outcome \in {"ok", "err"}, eho \in ErrorOutcomes :
    LET r == reqs[id]
        r1 == [r EXCEPT !.acts[k].st = outcome]
    IN /\ r.acts[k].st = "run"
       /\ reqs' = [reqs EXCEPT ![id] =
                     IF r.acts[k].catch = "handleError"
                       THEN IF outcome = "err" THEN handleError(r1, k, eho) ELSE r1
                       ELSE IF outcome = "err" THEN dispatcherCatch(r1, k)
                            ELSE [r1 EXCEPT !.pc = "done"]]
       /\ UNCHANGED <<serverVars, ret, peer, self, disk, lastIndex>>

\* a dispatcher that completes although the error handler it awaited was
\* rejected; ErrorHandlerFailure tells it from ErrorHandlerSettles
ErrorHandlerSettlesSwallowing(id) ==
  \E outcome \in {"ok", "err"} :
    LET r == reqs[id] IN
      /\ r.pc = "erroring"
      /\ reqs' = [reqs EXCEPT ![id] =
                    [r EXCEPT !.errs = {IF e.st = "run" THEN [e EXCEPT !.st = outcome] ELSE e :
                                          e \in r.errs},
                              !.pc = "done"]]
      /\ UNCHANGED <<serverVars, ret, peer, self, disk, lastIndex>>

\* the promise of the error handler the dispatcher awaits settles
ErrorHandlerSettles(id) ==
  \E outcome \in {"ok", "err"} :
    LET r == reqs[id] IN
      /\ r.pc = "erroring"
      /\ reqs' = [reqs EXCEPT ![id] =
                    [r EXCEPT !.errs = {IF e.st = "run" THEN [e EXCEPT !.st = outcome] ELSE e :
                                          e \in r.errs},
                              !.pc = IF outcome = "ok" THEN "done" ELSE "failed"]]
      /\ UNCHANGED <<serverVars, ret, peer, self, disk, lastIndex>>

\* the listener drops a request that is over
Retire(id) ==
  /\ reqs[id].pc # "none"
  /\ Finished(reqs[id])
  /\ reqs' = [reqs EXCEPT ![id] = NoRequest]
  /\ UNCHANGED <<serverVars, ret, peer, self, disk, lastIndex>>

\* a running function of the caller writes the head of the response, or ends
\* the response
Responds(id) ==
  \E k \in 1..Len(reqs[id].acts), what \in {"writeHead", "end"} :
    LET r == reqs[id] IN
      /\ r.acts[k].st = "run"
      /\ IF what = "writeHead" THEN ~r.res.headersSent ELSE ~r.res.ended
      /\ reqs' = [reqs EXCEPT ![id].res =
                    IF what = "writeHead" THEN writeHead(@, 200) ELSE end(@)]
      /\ UNCHANGED <<serverVars, ret, peer, self, disk, lastIndex>>

\* server.ts:485-491: fs.promises.stat settles for the handler of static()
\* without a cache.  A regular file is piped into the response, which the
\* stream ends; for a directory the handler answers 404; when nothing is
\* there any more the promise of stat, and with it the handler's, is rejected
Stats(id) ==
  \E k \in 1..Len(reqs[id].acts), eho \in ErrorOutcomes :
    LET r == reqs[id]
        act == r.acts[k]
        outcome == IF act.fullPath \in DOMAIN disk THEN "ok"
                   ELSE IF Trimmed(act.fullPath) \in Directories /\ ~r.res.headersSent THEN "ok"
                   ELSE "err"
        r1 == [r EXCEPT !.acts[k].st = outcome,
                        !.res = IF act.fullPath \in DOMAIN disk
                                  THEN end(write(@, disk[act.fullPath]))
                                ELSE IF outcome = "ok" THEN end(writeHead(@, 404))
                                ELSE @]
    IN /\ act.st = "stat"
       /\ reqs' = [reqs EXCEPT ![id] =
                     IF act.catch = "handleError"
                       THEN IF outcome = "err" THEN handleError(r1, k, eho) ELSE r1
                       ELSE IF outcome = "err" THEN dispatcherCatch(r1, k)
                            ELSE [r1 EXCEPT !.pc = "done"]]
       /\ UNCHANGED <<serverVars, ret, peer, self, disk, lastIndex>>

\* a regular file is written, or written anew
WriteFile(p, data) ==
  /\ disk' = [q \in DOMAIN disk \cup {p} |-> IF q = p THEN data ELSE disk[q]]
  /\ disk' # disk
  /\ UNCHANGED <<serverVars, ret, reqs, peer, self, lastIndex>>

\* a regular file is removed
RemoveFile(p) ==
  /\ p \in DOMAIN disk
  /\ disk' = [q \in DOMAIN disk \ {p} |-> disk[q]]
  /\ UNCHANGED <<serverVars, ret, reqs, peer, self, lastIndex>>

-----------------------------------------------------------------------------
(* Spec: the server is set up between periods of traffic: routes and       *)
(* middlewares are added while no request is in flight, the two handler    *)
(* slots keep their defaults, and requests are served one at a time.       *)

Next ==
  \/ Idle /\ RegisterRoute
  \/ Idle /\ UseMiddlewares
  \/ \E id \in SoloRequests : Dispatch(id)
  \/ \E id \in SoloRequests : MiddlewareCallsNext(id)
  \/ \E id \in SoloRequests : Settles(id)
  \/ \E id \in SoloRequests : Retire(id)

Spec == Init /\ [][Next]_vars

\* SpecReg: the calls of the registration API alone, the rejected ones too
NextReg ==
  \/ Register
  \/ Use
  \/ SetErrorHandler
  \/ SetNotFoundHandler

SpecReg == Init /\ [][NextReg]_vars

-----------------------------------------------------------------------------
(* SpecSlots: a server with a plain route and a route with a middleware    *)
(* of its own on GET /a, at most one call of use(), and the two handler    *)
(* slots replaced between periods of traffic; requests one at a time.      *)

\* the argument lists of the routes of SpecSlots
SlotRouteArgs ==
  { <<Str(PathA), Fn("H1")>>,
    <<Str(PathA), Fn("r1"), Fn("H2")>> }

SlotRoute == \E args \in SlotRouteArgs : withMethod("GET", args)

SlotUse == globalMiddleWares = <<>> /\ use(<<Fn("g1")>>)

SlotSetErrorHandler == setErrorHandler(Fn("E1"))

SlotSetNotFoundHandler == setNotFoundHandler(Fn("N1"))

NextSlots ==
  \/ Idle /\ SlotRoute
  \/ Idle /\ SlotUse
  \/ Idle /\ SlotSetErrorHandler
  \/ Idle /\ SlotSetNotFoundHandler
  \/ \E id \in SoloRequests : Dispatch(id)
  \/ \E id \in SoloRequests : MiddlewareCallsNext(id)
  \/ \E id \in SoloRequests : Settles(id)
  \/ \E id \in SoloRequests : ErrorHandlerSettles(id)
  \/ \E id \in SoloRequests : Retire(id)

SpecSlots == Init /\ [][NextSlots]_vars

-----------------------------------------------------------------------------
(* SpecLive: routes and global middlewares are added while a request is    *)
(* in flight, suspended inside a middleware or a handler; one call of      *)
(* use() at most during the flight of a request.  Slots keep the defaults. *)

\* the argument lists of use() in SpecLive
LiveUseArgs == { <<Fn("g1")>>, <<Fn("g2")>> }

LiveRoute == \E args \in SlotRouteArgs : withMethod("GET", args)

\* no request in flight has seen a call of use() since it was dispatched
NoUseInFlight == \A id \in Requests : reqs[id].pc # "none" => globalMiddleWares = reqs[id].g0

LiveUse == \E middlewares \in LiveUseArgs : NoUseInFlight /\ use(middlewares)

NextLive ==
  \/ LiveRoute
  \/ LiveUse
  \/ \E id \in SoloRequests : Dispatch(id)
  \/ \E id \in SoloRequests : MiddlewareCallsNext(id)
  \/ \E id \in SoloRequests : Settles(id)
  \/ \E id \in SoloRequests : Retire(id)

SpecLive == Init /\ [][NextLive]_vars

-----------------------------------------------------------------------------
(* SpecPair: two servers, each made by a call of createServer(), and the   *)
(* calls of the API made on one or the other in any order.                 *)

\* the arguments of listen() in SpecPair
PairPortArgs == { Num(3000), Num(70000) }

\* the closure of the server the caller is calling
Closure ==
  [errorHandler |-> errorHandler,
   notFoundHandler |-> notFoundHandler,
   globalMiddleWares |-> globalMiddleWares,
   groupedHandlers |-> groupedHandlers,
   compiledHandlers |-> compiledHandlers,
   tables |-> tables,
   instance |-> instance,
   promises |-> promises]

\* the caller turns to the other server: its next calls run in the other closure
Switch ==
  /\ self' = IF self = "A" THEN "B" ELSE "A"
  /\ peer' = Closure
  /\ errorHandler' = peer.errorHandler
  /\ notFoundHandler' = peer.notFoundHandler
  /\ globalMiddleWares' = peer.globalMiddleWares
  /\ groupedHandlers' = peer.groupedHandlers
  /\ compiledHandlers' = peer.compiledHandlers
  /\ tables' = peer.tables
  /\ instance' = peer.instance
  /\ promises' = peer.promises
  /\ UNCHANGED <<ret, reqs, disk, lastIndex>>

PairRoute == withMethod("GET", <<Str(PathA), Fn("H1")>>)

PairUse == SlotUse

\* listen() is called with any port; with a port it accepts, when the server
\* is not bound or binding and no close() is pending
ListenOn(ports) ==
  \E port \in ports :
    /\ (typeOf(port) = "number" /\ PortInRange(port))
         => /\ promises.listen # "pending"
            /\ promises.close # "pending"
            /\ instance # Undefined => instance.state \in {"failed", "closed"}
    /\ listen(port)

PairListen == ListenOn(PairPortArgs)

\* close() is called when no listen() and no close() is pending
Close ==
  /\ promises.listen # "pending"
  /\ promises.close # "pending"
  /\ close

Bound == bound

BindFailed == bindFailed

Closed == closed

NextPair ==
  \/ PairRoute
  \/ PairUse
  \/ SlotSetErrorHandler
  \/ SlotSetNotFoundHandler
  \/ PairListen
  \/ Close
  \/ Bound
  \/ Switch

SpecPair == Init /\ [][NextPair]_vars

-----------------------------------------------------------------------------
(* SpecListen: the life of the listener.  listen() and close() are called  *)
(* with any port, the transport binds or fails and releases, and the       *)
(* listener hands requests to the dispatcher while it is bound.            *)
(* SpecListenFair: the transport answers every call made on it.            *)

\* the arguments of listen()
PortArgs ==
  { Num(0), Num(3000), Num(MaxPort), Num(MaxPort + 1), Num(70000), Num(-1), NaN,
    Str(<<"3", "0", "0", "0">>), Undefined }

Listen == ListenOn(PortArgs)

\* a request arrives at the listener
Arrives(id) ==
  /\ instance # Undefined
  /\ instance.state = "listening"
  /\ Dispatch(id)

NextListen ==
  \/ Listen
  \/ Close
  \/ Bound
  \/ BindFailed
  \/ Closed
  \/ \E id \in SoloRequests : Arrives(id)
  \/ \E id \in SoloRequests : Retire(id)

SpecListen == Init /\ [][NextListen]_vars

SpecListenFair ==
  /\ Init
  /\ [][NextListen]_vars
  /\ WF_vars(Bound \/ BindFailed)
  /\ WF_vars(Closed)

-----------------------------------------------------------------------------
(* SpecApi: the calls that set a server up, for each of the nine methods   *)
(* (server.ts:333-359), accepted and rejected, with no request in flight.  *)

HttpMethods ==
  {"CONNECT", "DELETE", "GET", "HEAD", "OPTIONS", "PATCH", "POST", "PUT", "TRACE"}

ApiRouteArgs == { <<Str(PathA), Fn("H1")>>, <<Str(PathA), Num(1)>> }

ApiUseArgs == { <<>>, <<Fn("g1")>>, <<Num(1)>> }

ApiHandlerArgs == { Fn("E1"), Undefined }

\* the directory that is served, absolute and relative to Cwd, and one that
\* is not there
RootDir == <<"/", "w", "/", "p">>
ApiBasePaths == { Str(<<"/", "s">>), Num(1) }
ApiRootDirs == { Str(RootDir), Str(<<"p">>), Str(<<"/", "n">>), Undefined }
ApiCaches == { Undefined, Bool(TRUE), Bool(FALSE) }

ApiRoute == \E method \in HttpMethods, args \in ApiRouteArgs : withMethod(method, args)

ApiUse == \E middlewares \in ApiUseArgs : use(middlewares)

ApiSetErrorHandler == \E handler \in ApiHandlerArgs : setErrorHandler(handler)

ApiSetNotFoundHandler == \E handler \in ApiHandlerArgs : setNotFoundHandler(handler)

ApiStatic ==
  \E basePath \in ApiBasePaths, rootDir \in ApiRootDirs, cache \in ApiCaches :
    static(basePath, rootDir, cache)

NextApi ==
  \/ ApiRoute
  \/ ApiUse
  \/ ApiSetErrorHandler
  \/ ApiSetNotFoundHandler
  \/ ApiStatic

SpecApi == Init /\ [][NextApi]_vars

-----------------------------------------------------------------------------
(* SpecStatic: one directory is served with static(), with and without the *)
(* cache, while files are written and removed and GET requests arrive.     *)

BasePath == <<"/", "s">>

StaticBasePaths == { Str(BasePath), Str(BasePath \o <<"/">>) }
StaticRootDirs == { Str(RootDir), Str(<<"p">>) }
StaticCaches == { Undefined, Bool(FALSE) }

\* the bytes a file can have
FileData == {"v1", "v2"}

StaticUrls ==
  { BasePath, BasePath \o <<"/", "a">>, BasePath \o <<"/", "b">>,
    BasePath \o <<"/", "s", "/", "b">>, BasePath \o <<"/", "x">>, PathA }

Mount ==
  /\ RouteCount(groupedHandlers) = 0
  /\ \E basePath \in StaticBasePaths, rootDir \in StaticRootDirs, cache \in StaticCaches :
       static(basePath, rootDir, cache)

Write == \E p \in {FileA, FileB}, data \in FileData : WriteFile(p, data)

Remove == \E p \in {FileA, FileB} : RemoveFile(p)

\* the listener hands a GET request to the dispatcher
Get(id) ==
  /\ reqs[id].pc = "none"
  /\ \E url \in StaticUrls, eho \in ErrorOutcomes :
       /\ reqs' = [reqs EXCEPT ![id] = flitz("GET", url, FALSE, eho)]
       /\ lastIndex' = Scanned("GET", url)
  /\ UNCHANGED <<serverVars, ret, peer, self, disk>>

NextStatic ==
  \/ Mount
  \/ Write
  \/ Remove
  \/ \E id \in SoloRequests : Get(id)
  \/ \E id \in SoloRequests : Stats(id)
  \/ \E id \in SoloRequests : Retire(id)

SpecStatic == Init /\ [][NextStatic]_vars

-----------------------------------------------------------------------------
(* SpecRes: requests over routes and middlewares whose functions write to  *)
(* the response before they are done or fail.  The error handler is the    *)
(* default one; the not-found handler is the default one until the caller  *)
(* sets one.                                                               *)

NextRes ==
  \/ Idle /\ SlotRoute
  \/ Idle /\ SlotUse
  \/ Idle /\ SlotSetNotFoundHandler
  \/ \E id \in SoloRequests : Dispatch(id)
  \/ \E id \in SoloRequests : Responds(id)
  \/ \E id \in SoloRequests : MiddlewareCallsNext(id)
  \/ \E id \in SoloRequests : Settles(id)
  \/ \E id \in SoloRequests : Retire(id)

SpecRes == Init /\ [][NextRes]_vars

-----------------------------------------------------------------------------
(* SpecMatch: routes with every kind of validator: strings, RegExp objects *)
(* with the flags g and y, predicate functions that accept and that throw. *)
(* Requests are served one at a time, between registrations.               *)

MatchPaths ==
  { Str(PathA), Str(PathB), RegExpF(PathA, "g"), RegExpF(PathA, "y"),
    Fn("pAll"), Fn("pThrow") }

MatchRoute == \E path \in MatchPaths : withMethod("GET", <<path, Fn("H1")>>)

MatchRoutePost == withMethod("POST", <<Fn("pAll"), Fn("H2")>>)

NextMatch ==
  \/ Idle /\ MatchRoute
  \/ Idle /\ MatchRoutePost
  \/ \E id \in SoloRequests : Dispatch(id)
  \/ \E id \in SoloRequests : Settles(id)
  \/ \E id \in SoloRequests : Retire(id)

SpecMatch == Init /\ [][NextMatch]_vars

-----------------------------------------------------------------------------
(* SpecConc: two requests in flight at once on a server set up beforehand  *)
(* with the routes of SpecSlots and at most one global middleware; the     *)
(* steps of the two requests interleave in every order.                    *)

NextConc ==
  \/ Idle /\ SlotRoute
  \/ Idle /\ SlotUse
  \/ \E id \in Requests : Dispatch(id)
  \/ \E id \in Requests : MiddlewareCallsNext(id)
  \/ \E id \in Requests : Settles(id)
  \/ \E id \in Requests : Retire(id)

SpecConc == Init /\ [][NextConc]_vars

\* the functions invoked for the second request call next() or settle in the
\* end; nothing is asked of the first request, which may stay where it is
\* for ever
SpecConcFair ==
  SpecConc /\ WF_vars(MiddlewareCallsNext(2) \/ Settles(2))

-----------------------------------------------------------------------------
(* SpecTwice: the server of SpecConc with one request at a time, whose     *)
(* middlewares may call next() a second time while they run.               *)

NextTwice ==
  \/ Idle /\ SlotRoute
  \/ Idle /\ SlotUse
  \/ \E id \in SoloRequests : Dispatch(id)
  \/ \E id \in SoloRequests : MiddlewareCallsNext(id)
  \/ \E id \in SoloRequests : MiddlewareCallsNextAgain(id)
  \/ \E id \in SoloRequests : Settles(id)
  \/ \E id \in SoloRequests : Retire(id)

SpecTwice == Init /\ [][NextTwice]_vars

-----------------------------------------------------------------------------
(* SpecChain: one request at a time on the server of SpecConc, with        *)
(* functions that behave: none throws, no promise is rejected, and a       *)
(* middleware is done only after it has called next(), which it does in    *)
(* the end.                                                                *)

\* no function invoked for the request has failed, and no middleware is done
\* without its call of next()
Behaves(r) ==
  /\ r.errs = {}
  /\ \A k \in 1..Len(r.acts) :
       /\ r.acts[k].st \in {"run", "ok"}
       /\ (r.acts[k].role = "mw" /\ r.acts[k].st = "ok") => r.acts[k].nexts = 1

ChainDispatch(id) == Dispatch(id) /\ Behaves(reqs'[id])

ChainCallsNext(id) == MiddlewareCallsNext(id) /\ Behaves(reqs'[id])

ChainSettles(id) == Settles(id) /\ Behaves(reqs'[id])

NextChain ==
  \/ Idle /\ SlotRoute
  \/ Idle /\ SlotUse
  \/ \E id \in SoloRequests : ChainDispatch(id)
  \/ \E id \in SoloRequests : ChainCallsNext(id)
  \/ \E id \in SoloRequests : ChainSettles(id)
  \/ \E id \in SoloRequests : Retire(id)

\* every middleware that runs calls its next() in the end
SpecChain ==
  Init /\ [][NextChain]_vars /\ \A id \in SoloRequests : WF_vars(ChainCallsNext(id))

-----------------------------------------------------------------------------
(* Properties of dispatch, checked under Spec.                             *)

\* the functions of the caller invoked for a request, in the order of invocation
Trace(r) == [k \in 1..Len(r.acts) |-> r.acts[k].fn]

\* the request is with the server and find() gave it a route
Matched(r) == r.pc # "none" /\ r.idx > 0

\* the route the request was matched to, as registration left it in the
\* route table
RouteOf(r) == groupedHandlers[r.method][r.idx]

\* the route middlewares and the handler a route was registered with, in order
RouteStages(route) ==
  IF route.handler.kind = "merged"
    THEN route.handler.middlewares.items \o <<route.handler.handler.id>>
    ELSE <<route.handler.id>>

\* the handler a route was registered with
RouteTerminal(route) == RouteStages(route)[Len(RouteStages(route))]

\* every middleware invoked for the request has called its next()
EveryMiddlewareCalledNext(r) ==
  \A k \in 1..Len(r.acts) : r.acts[k].role = "mw" => r.acts[k].nexts = 1

\* the invocation failed: its promise was rejected, or it threw when called
Failed(act) == act.st \in {"err", "threw"}

\* the invocations of global middlewares, in order
GlobalActs(r) ==
  SelectSeq(r.acts, LAMBDA act : act.role = "mw" /\ r.chains[act.chain].middlewares.live)

IsPrefix(s, t) == Len(s) <= Len(t) /\ \A k \in 1..Len(s) : s[k] = t[k]

\* C1: first match wins.  When two routes of the bucket of the method of a
\* request, R1 registered before R2, both accept the request, the request is
\* dispatched to the first route of the bucket that accepts it, which is R1 or
\* a route before it and never R2: the functions invoked are those of that
\* route, its handler is the only handler invoked, and the not-found handler
\* is not invoked.
FirstMatchWins ==
  \A id \in Requests :
    LET r == reqs[id]
        bucket == Bucket(groupedHandlers, r.method)
        req == [method |-> r.method, url |-> r.url]
    IN r.pc # "none" =>
         \A j, k \in 1..Len(bucket) :
           (/\ j < k
            /\ IsPathValid(bucket[j].isPathValid, req)
            /\ IsPathValid(bucket[k].isPathValid, req))
           => /\ r.idx \in 1..j
              /\ IsPathValid(bucket[r.idx].isPathValid, req)
              /\ \A i \in 1..(r.idx - 1) : ~IsPathValid(bucket[i].isPathValid, req)
              /\ IsPrefix(Trace(r), r.g0 \o RouteStages(bucket[r.idx]))
              /\ \A a \in 1..Len(r.acts) :
                   /\ r.acts[a].role # "notFound"
                   /\ r.acts[a].role = "handler"
                        => r.acts[a].fn = RouteTerminal(bucket[r.idx])

\* a request that two routes with different handlers accept has reached the
\* handler of the first
FirstMatchWinsWitness ==
  \E id \in Requests :
    LET r == reqs[id]
        bucket == Bucket(groupedHandlers, r.method)
        req == [method |-> r.method, url |-> r.url]
    IN /\ Matched(r)
       /\ \E k \in (r.idx + 1)..Len(bucket) :
            /\ IsPathValid(bucket[k].isPathValid, req)
            /\ RouteTerminal(bucket[k]) # RouteTerminal(bucket[r.idx])
       /\ \E a \in 1..Len(r.acts) :
            r.acts[a].role = "handler" /\ r.acts[a].fn = RouteTerminal(bucket[r.idx])

\* C2: middleware order.  A matched request in which every middleware invoked
\* has called next() has run exactly the global middlewares in the order
\* use() accumulated them, then the route middlewares of its route, then the
\* handler of the route, and nothing else: g1, g2, r1, H for globals [g1, g2]
\* and route middlewares [r1], in whatever order use() and the registration
\* were called.
MiddlewareOrder ==
  \A id \in Requests :
    LET r == reqs[id] IN
      (Matched(r) /\ EveryMiddlewareCalledNext(r))
        => Trace(r) = globalMiddleWares \o RouteStages(RouteOf(r))

\* g1, g2, r1 and the handler have run in that order, on a route registered
\* after the calls of use()
MiddlewareOrderWitness ==
  \E id \in Requests :
    /\ Matched(reqs[id])
    /\ Trace(reqs[id]) = <<"g1", "g2", "r1", "H2">>
    /\ RouteCount(groupedHandlers) = 1
    /\ ret = Returns(Flitz, "withMethod")

\* C3: a middleware, global or of the route, that fails without a call of
\* next() (it throws when called, or its promise is rejected) has its failure
\* given to the error handler in the slot exactly once, and no function is
\* invoked after it: no later middleware and no handler.  When no other
\* function of the request has failed, this is the one invocation of the
\* error handler for the request.
MiddlewareFailureHandledOnce ==
  \A id \in Requests :
    LET r == reqs[id] IN
      r.pc # "none" =>
        \A k \in 1..Len(r.acts) :
          (r.acts[k].role = "mw" /\ Failed(r.acts[k]) /\ r.acts[k].nexts = 0)
          => /\ Cardinality({e \in r.errs : e.err = k}) = 1
             /\ \A e \in r.errs : e.err = k => e.fn = errorHandler
             /\ k = Len(r.acts)
             /\ (\A j \in 1..Len(r.acts) : j # k => ~Failed(r.acts[j]))
                  => Cardinality(r.errs) = 1

\* the second middleware of a chain was rejected without a call of next():
\* the error handler was invoked once and the handler of the route never
MiddlewareFailureHandledOnceWitness ==
  \E id \in Requests :
    LET r == reqs[id] IN
      /\ Matched(r)
      /\ Len(r.acts) = 2
      /\ r.acts[2].role = "mw" /\ r.acts[2].st = "err" /\ r.acts[2].nexts = 0
      /\ r.acts[1].st = "ok"
      /\ Cardinality(r.errs) = 1

\* C4 as it is stated: whatever functions of a request fail, the error
\* handler is invoked at most once for the request
ErrorHandlerOncePerRequest ==
  \A id \in Requests : Cardinality(reqs[id].errs) <= 1

\* C5: short-circuit.  After a middleware is done without a call of next()
\* and without a failure, no function is invoked after it (no later
\* middleware, no handler), its completion is not given to the error handler,
\* and the not-found handler is not invoked.  When no other function of the
\* request has failed, the error handler is not invoked at all.
ShortCircuit ==
  \A id \in Requests :
    LET r == reqs[id] IN
      r.pc # "none" =>
        \A k \in 1..Len(r.acts) :
          (r.acts[k].role = "mw" /\ r.acts[k].st = "ok" /\ r.acts[k].nexts = 0)
          => /\ k = Len(r.acts)
             /\ \A e \in r.errs : e.err # k
             /\ \A j \in 1..Len(r.acts) : r.acts[j].role # "notFound"
             /\ (\A j \in 1..Len(r.acts) : j # k => ~Failed(r.acts[j]))
                  => r.errs = {}

\* the route middleware was done without a call of next() after both global
\* middlewares had called theirs and were done: the request is over, the
\* handler was not invoked
ShortCircuitWitness ==
  \E id \in Requests :
    LET r == reqs[id] IN
      /\ Matched(r)
      /\ Trace(r) = <<"g1", "g2", "r1">>
      /\ \A k \in 1..3 : r.acts[k].st = "ok"
      /\ r.acts[3].nexts = 0
      /\ r.errs = {}

\* C6: once a handler is invoked for a matched request, every global
\* middleware of the server has been invoked before it, those added by a
\* use() that came after the route was registered too, and the functions
\* invoked last are the route middlewares and the handler the route was
\* registered with.
UseReachesRoutes ==
  \A id \in Requests :
    LET r == reqs[id] IN
      Matched(r) =>
        \A k \in 1..Len(r.acts) :
          r.acts[k].role = "handler" =>
            LET stages == RouteStages(RouteOf(r)) IN
              /\ \A j \in 1..Len(globalMiddleWares) :
                   \E i \in 1..(k - 1) :
                     r.acts[i].role = "mw" /\ r.acts[i].fn = globalMiddleWares[j]
              /\ k >= Len(stages)
              /\ SubSeq(Trace(r), k - Len(stages) + 1, k) = stages

\* the last call was a use() on a server that had routes, and a request
\* dispatched since then went through the global middlewares, the route
\* middleware and the handler
UseReachesRoutesWitness ==
  \E id \in Requests :
    LET r == reqs[id] IN
      /\ ret = Returns(Flitz, "use")
      /\ Matched(r)
      /\ Len(globalMiddleWares) > 0
      /\ Trace(r) = globalMiddleWares \o <<"r1", "H2">>

\* C7: no double application.  The global middlewares invoked for a matched
\* request are at every moment the first ones of the array use() accumulated,
\* each entry once and in the order of the array, however often the compiled
\* table was rebuilt; when every middleware invoked has called next(), they
\* are all the entries of the array.
NoDoubleApplication ==
  \A id \in Requests :
    LET r == reqs[id]
        globals == [k \in 1..Len(GlobalActs(r)) |-> GlobalActs(r)[k].fn]
    IN Matched(r) =>
         /\ IsPrefix(globals, globalMiddleWares)
         /\ EveryMiddlewareCalledNext(r) => globals = globalMiddleWares

\* two routes and two global middlewares (three rebuilds or more), and a
\* request has run g1 and g2 once each and then the handler
NoDoubleApplicationWitness ==
  \E id \in Requests :
    LET r == reqs[id] IN
      /\ Matched(r)
      /\ RouteCount(groupedHandlers) = 2
      /\ globalMiddleWares = <<"g1", "g2">>
      /\ Len(GlobalActs(r)) = 2
      /\ r.acts[Len(r.acts)].role = "handler"

-----------------------------------------------------------------------------
(* Properties of registration, checked under SpecReg.                      *)

\* the calls of the registration methods, each a method and its argument list
RegisterCalls == UNION {{<<method, args>> : args \in RegisterArgs(method)} : method \in Methods}

\* the handler a call of flitz.get(path, [optionsOrMiddlewares,] handler) gives
HandlerGiven(args) == IF Len(args) >= 2 THEN args[Len(args)] ELSE Undefined

\* the call gives route middlewares, as an array or as options.use, and one
\* of them is not a function
BadRouteMiddlewares(args) ==
  /\ Len(args) = 3
  /\ \/ /\ args[2].t = "array"
        /\ \E k \in 1..Len(args[2].items) : args[2].items[k].t # "function"
     \/ /\ args[2].t = "object"
        /\ args[2].use.t = "array"
        /\ \E k \in 1..Len(args[2].use.items) : args[2].use.items[k].t # "function"

\* the calls whose path is neither a string, a RegExp nor a function
BadPathCalls ==
  {call \in RegisterCalls : Arg(call[2], 0).t \notin {"string", "regexp", "function"}}

\* C8: a registration whose path is neither a string, a RegExp nor a function
\* throws the TypeError of the path check and leaves the route table and the
\* compiled table as they were: no bucket is created and no entry is appended.
PathRejected ==
  [][\A call \in BadPathCalls :
       LET method == call[1]
           args == call[2]
       IN
       withMethod(method, args)
       => /\ ret'.error = "TypeError"
          /\ ret'.message = PathError
          /\ groupedHandlers' = groupedHandlers
          /\ DOMAIN groupedHandlers' = DOMAIN groupedHandlers
          /\ compiledHandlers' = compiledHandlers
          /\ tables' = tables
          /\ Compiled' = Compiled]_vars

\* a registration was rejected for its path on a server that has routes and
\* a compiled table of its own
PathRejectedWitness ==
  /\ ret = Throws(PathError, "withMethod")
  /\ RouteCount(groupedHandlers) > 0
  /\ compiledHandlers # 0

\* the calls whose path is the empty string
EmptyPathCalls == {call \in RegisterCalls : Arg(call[2], 0) = Str(PathEmpty)}

\* C9, as the code has it: a string path may be empty.  A registration with
\* the empty string as path and a callable handler returns the server and
\* appends to the bucket of its method a route whose matcher accepts the empty
\* URL and no other.
EmptyPathAccepted ==
  [][\A call \in EmptyPathCalls :
       LET method == call[1]
           args == call[2]
       IN
       (/\ HandlerGiven(args).t = "function"
        /\ ~BadRouteMiddlewares(args)
        /\ withMethod(method, args))
       => /\ ret' = Returns(Flitz, "withMethod")
          /\ Len(groupedHandlers'[method]) = Len(Bucket(groupedHandlers, method)) + 1
          /\ LET route == groupedHandlers'[method][Len(groupedHandlers'[method])]
             IN \A url \in Urls \cup {PathEmpty} :
                  IsPathValid(route.isPathValid, [method |-> method, url |-> url])
                    <=> url = PathEmpty]_vars

\* a route registered with the empty string as path is in the route table
EmptyPathWitness ==
  \E method \in DOMAIN groupedHandlers : \E k \in 1..Len(groupedHandlers[method]) :
    groupedHandlers[method][k].isPathValid = isPathValidByString(Str(PathEmpty))

\* C9 as it is stated: a registration with the empty string as path throws a
\* TypeError before any state is changed
EmptyPathRejected ==
  [][\A call \in EmptyPathCalls :
       withMethod(call[1], call[2])
       => (ret'.error = "TypeError" /\ UNCHANGED serverVars)]_vars

\* the calls whose handler is not callable, or whose route middlewares hold
\* an element that is not callable
BadHandlerCalls ==
  {call \in RegisterCalls :
     HandlerGiven(call[2]).t # "function" \/ BadRouteMiddlewares(call[2])}

\* C10: a registration whose handler is not callable, or whose route
\* middlewares hold an element that is not callable, throws a TypeError out of
\* the call and changes nothing: route table, compiled table, global
\* middlewares and both handler slots are as before, and no request sees the
\* error handler invoked.  With an accepted path the TypeError is the one of
\* the check that failed.
RegistrationFailsWhole ==
  [][\A call \in BadHandlerCalls :
       LET method == call[1]
           args == call[2]
       IN
       withMethod(method, args)
       => /\ ret'.error = "TypeError"
          /\ ret'.by = "withMethod"
          /\ Arg(args, 0).t \in {"string", "regexp", "function"}
               => ret'.message = IF HandlerGiven(args).t # "function"
                                   THEN HandlerError ELSE RouteMiddlewaresError
          /\ UNCHANGED <<errorHandler, notFoundHandler, globalMiddleWares,
                         groupedHandlers, compiledHandlers, tables, reqs, instance, promises, peer, self, disk, lastIndex>>]_vars

\* a registration was rejected for its route middlewares on a server that has
\* routes, global middlewares and handlers of its own in both slots
RegistrationFailsWholeWitness ==
  /\ ret = Throws(RouteMiddlewaresError, "withMethod")
  /\ RouteCount(groupedHandlers) > 0
  /\ globalMiddleWares # <<>>
  /\ errorHandler # DefaultErrorHandler
  /\ notFoundHandler # DefaultNotFoundHandler

\* the calls of use() with an argument that is not callable
BadUseArgs ==
  {middlewares \in UseArgs : \E k \in 1..Len(middlewares) : middlewares[k].t # "function"}

\* C11: use() checks every argument before it appends any.  A call with an
\* argument that is not callable throws the TypeError of use() and appends
\* nothing to the global middlewares, not the callable arguments before the
\* offender either; route table and compiled table are as before.
UseRejected ==
  [][\A middlewares \in BadUseArgs :
       use(middlewares)
       => /\ ret' = Throws(UseError, "use")
          /\ globalMiddleWares' = globalMiddleWares
          /\ groupedHandlers' = groupedHandlers
          /\ compiledHandlers' = compiledHandlers
          /\ tables' = tables
          /\ Compiled' = Compiled]_vars

\* a call of use() was rejected on a server that has routes and global
\* middlewares
UseRejectedWitness ==
  /\ ret = Throws(UseError, "use")
  /\ RouteCount(groupedHandlers) > 0
  /\ globalMiddleWares # <<>>

\* the values given to a setter that are not callable
BadErrorHandlerArgs == {handler \in ErrorHandlerArgs : handler.t # "function"}
BadNotFoundHandlerArgs == {handler \in NotFoundHandlerArgs : handler.t # "function"}

\* C16: setErrorHandler and setNotFoundHandler called with a value that is
\* not callable throw a TypeError and leave their slot, the other slot, the
\* global middlewares, the route table and the compiled table as they were.
SetterRejected ==
  [][/\ \A handler \in BadErrorHandlerArgs :
          setErrorHandler(handler)
          => /\ ret' = Throws(SetterError, "setErrorHandler")
             /\ UNCHANGED <<errorHandler, notFoundHandler, globalMiddleWares,
                            groupedHandlers, compiledHandlers, tables, reqs, instance, promises, peer, self, disk, lastIndex>>
     /\ \A handler \in BadNotFoundHandlerArgs :
          setNotFoundHandler(handler)
          => /\ ret' = Throws(SetterError, "setNotFoundHandler")
             /\ UNCHANGED <<errorHandler, notFoundHandler, globalMiddleWares,
                            groupedHandlers, compiledHandlers, tables, reqs, instance, promises, peer, self, disk, lastIndex>>]_vars

\* setErrorHandler rejected a value on a server whose slots hold handlers of
\* the caller
SetterRejectedWitness ==
  /\ ret = Throws(SetterError, "setErrorHandler")
  /\ errorHandler = "E1"
  /\ notFoundHandler = "N1"

-----------------------------------------------------------------------------
(* Properties of the handler slots, checked under SpecSlots.               *)

\* no route of the bucket of the method of the request accepts it; a method
\* without routes has the empty bucket
Unmatched(r) ==
  LET bucket == Bucket(groupedHandlers, r.method) IN
    \A k \in 1..Len(bucket) :
      ~IsPathValid(bucket[k].isPathValid, [method |-> r.method, url |-> r.url])

\* C12: not-found fallthrough.  A request whose method has no routes, or
\* whose bucket has no route that accepts it, invokes the not-found handler
\* of the slot exactly once, and no route handler and no middleware.
NotFoundFallthrough ==
  \A id \in Requests :
    LET r == reqs[id] IN
      (r.pc # "none" /\ Unmatched(r))
      => /\ Len(r.acts) = 1
         /\ r.acts[1].role = "notFound"
         /\ r.acts[1].fn = notFoundHandler

\* a GET request no route of the non-empty GET bucket accepts went to the
\* not-found handler the caller has set
NotFoundFallthroughWitness ==
  \E id \in Requests :
    LET r == reqs[id] IN
      /\ r.pc # "none"
      /\ Bucket(groupedHandlers, r.method) # <<>>
      /\ Unmatched(r)
      /\ notFoundHandler = "N1"
      /\ Trace(r) = <<"N1">>

\* C13: every failure of the handler of the route or of the not-found
\* handler, thrown when it was called or by a rejected promise, is given to
\* the error handler of the slot, within the same request.
FailureReachesErrorHandler ==
  \A id \in Requests :
    LET r == reqs[id] IN
      r.pc # "none" =>
        \A k \in 1..Len(r.acts) :
          (r.acts[k].role \in {"handler", "notFound"} /\ Failed(r.acts[k]))
          => \E e \in r.errs : e.err = k /\ e.fn = errorHandler

\* the promise of the not-found handler of the caller was rejected and the
\* error handler of the caller got the failure
FailureReachesErrorHandlerWitness ==
  \E id \in Requests :
    LET r == reqs[id] IN
      /\ r.pc # "none"
      /\ Len(r.acts) = 1
      /\ r.acts[1].role = "notFound"
      /\ r.acts[1].st = "err"
      /\ \E e \in r.errs : e.err = 1 /\ e.fn = "E1"

SlotReplacement ==
  \A id \in Requests :
    LET r == reqs[id] IN
      r.pc # "none" =>
        /\ \A e \in r.errs : e.fn = errorHandler
        /\ \A k \in 1..Len(r.acts) :
             r.acts[k].role = "notFound" => r.acts[k].fn = notFoundHandler

\* setErrorHandler was the last call of the set-up, after the routes and the
\* global middleware, and a failure inside a chain went to its handler
SlotReplacementWitness ==
  \E id \in Requests :
    LET r == reqs[id] IN
      /\ ret = Returns(Flitz, "setErrorHandler")
      /\ globalMiddleWares # <<>>
      /\ Matched(r)
      /\ \E e \in r.errs : e.via = "handleError" /\ e.fn = "E1"

-----------------------------------------------------------------------------
(* Properties of the compiled table, checked under SpecReg.                *)

\* the functions a handler of a table runs when every middleware calls
\* next(): the middlewares of each mergeHandler around it, then the handler
RECURSIVE Stages(_)
Stages(h) ==
  IF h.kind = "merged" THEN Items(h.middlewares) \o Stages(h.handler) ELSE <<h.id>>

\* C17: the compiled table follows registration.  After any calls of the
\* registration methods and of use(), accepted or rejected, the compiled table
\* has the buckets of the route table, each of the same length, with the same
\* validators in the same order, and each of its handlers runs all the global
\* middlewares there are now and then what the route was registered with; the
\* dispatcher reads the compiled table.
CompiledReflectsRegistration ==
  /\ DOMAIN Compiled = DOMAIN groupedHandlers
  /\ \A m \in DOMAIN groupedHandlers :
       /\ Len(Compiled[m]) = Len(groupedHandlers[m])
       /\ \A k \in 1..Len(groupedHandlers[m]) :
            LET raw == groupedHandlers[m][k]
                compiled == Compiled[m][k]
            IN /\ compiled.isPathValid = raw.isPathValid
               /\ Stages(compiled.handler) = globalMiddleWares \o Stages(raw.handler)
               /\ globalMiddleWares # <<>>
                    => compiled.handler = mergeHandler(raw.handler, GlobalArray)
  /\ \A method \in Methods, url \in Urls :
       flitz(method, url, FALSE, "ok").idx
         = FirstMatch(Bucket(Compiled, method), [method |-> method, url |-> url])

\* a route was registered after two routes and two global middlewares were
\* there, and the compiled table has it
CompiledReflectsRegistrationWitness ==
  /\ ret = Returns(Flitz, "withMethod")
  /\ globalMiddleWares = <<"g1", "g2">>
  /\ "GET" \in DOMAIN groupedHandlers
  /\ Len(groupedHandlers["GET"]) = 2
  /\ compiledHandlers = FreshRef
  /\ Len(Compiled["GET"]) = 2

\* the step is a call of a registration method or of use() that went through,
\* which ends with recompileHandlers()
Rebuilds == ret'.error = "" /\ ret'.by \in {"withMethod", "use"}

-----------------------------------------------------------------------------
(* Properties of a request in flight, checked under SpecLive.              *)

\* C19: a request in flight while a route is registered or use() is called
\* runs the global middlewares and the functions of its route as the table
\* compiled before the call has them, or as the table compiled by the call
\* has them, and no mixture: what it has invoked so far begins one of the two
\* sequences, and is one of them when the handler of the route is invoked.
InFlightSeesOneTable ==
  \A id \in Requests :
    LET r == reqs[id] IN
      Matched(r) =>
        \E globals \in {r.g0, globalMiddleWares} :
          LET prescribed == globals \o RouteStages(RouteOf(r)) IN
            /\ IsPrefix(Trace(r), prescribed)
            /\ (\E k \in 1..Len(r.acts) : r.acts[k].role = "handler")
                 => Trace(r) = prescribed

\* use() was called while the request was inside the first global middleware;
\* the request went on to the middleware added and then to the handler
InFlightSeesOneTableWitness ==
  \E id \in Requests :
    LET r == reqs[id] IN
      /\ Matched(r)
      /\ r.g0 # <<>>
      /\ Len(globalMiddleWares) = Len(r.g0) + 1
      /\ Len(GlobalActs(r)) = Len(globalMiddleWares)
      /\ r.acts[Len(r.acts)].role = "handler"

-----------------------------------------------------------------------------
(* Properties of two servers, checked under SpecPair.                      *)

\* C20: instance isolation.  A call of a registration method, of use(), of
\* setErrorHandler, of setNotFoundHandler, of listen or of close on one of two
\* servers, accepted or rejected, leaves the route table, the compiled table,
\* the global middlewares, the two slots and the http server of the other as
\* they were; the dispatcher of the other reads nothing else.
InstanceIsolation == [][self' = self => peer' = peer]_vars

\* server A has a route, a global middleware, handlers of the caller in both
\* slots and a listener; server B, called after it, has its own and different
\* ones, and A has kept its own
InstanceIsolationWitness ==
  /\ self = "B"
  /\ peer.globalMiddleWares = <<"g1">>
  /\ peer.notFoundHandler = "N1"
  /\ peer.errorHandler = "E1"
  /\ RouteCount(peer.groupedHandlers) = 1
  /\ peer.instance = Server(3000, "listening")
  /\ globalMiddleWares = <<>>
  /\ notFoundHandler = DefaultNotFoundHandler
  /\ errorHandler = "E1"
  /\ RouteCount(groupedHandlers) = 2
  /\ instance = Server(3000, "closing")

-----------------------------------------------------------------------------
(* Properties of the listener, checked under SpecListen and                *)
(* SpecListenFair.                                                         *)

\* the port is a number from 0 to 65535
ValidPort(port) ==
  /\ port.t = "number"
  /\ "n" \in DOMAIN port
  /\ 0 <= port.n
  /\ port.n <= MaxPort

\* C21: listen(port) throws a TypeError when, and only when, port is not a
\* number from 0 to 65535; then no http server is made, and the server and
\* its promises are as before.  With a port in the range it throws nothing,
\* gives a promise, and the promise is resolved when the transport has bound.
ListenValidates ==
  [][/\ \A port \in PortArgs :
          listen(port)
          => IF ValidPort(port)
               THEN /\ ret' = Returns("promise", "listen")
                    /\ instance' = Server(port.n, "binding")
                    /\ promises'.listen = "pending"
               ELSE /\ ret'.error = "TypeError"
                    /\ ret'.by = "listen"
                    /\ instance' = instance
                    /\ promises' = promises
     /\ (instance # Undefined /\ instance' # Undefined
         /\ instance.state = "binding" /\ instance'.state = "listening")
        => promises'.listen = "resolved"]_vars

\* listen(65536) threw on a server that listens on port 65535, which goes on
\* listening
ListenValidatesWitness ==
  /\ ret = Throws(PortRangeError, "listen")
  /\ instance = Server(MaxPort, "listening")
  /\ promises.listen = "resolved"

\* C22, as the code has it: instance is undefined until listen() is called
\* with a port it accepts; from then on it is the http server of the last
\* such call, while the port is being bound, when binding failed and when
\* close() has released the listener as well as while it listens.
InstanceKept ==
  /\ instance = Undefined <=> promises.listen = "none"
  /\ instance # Undefined
       => /\ instance.state = "binding" <=> promises.listen = "pending"
          /\ instance.state = "failed" <=> promises.listen = "rejected"
          /\ instance.state \in {"listening", "closing", "closed"}
               <=> promises.listen = "resolved"

\* close() was resolved and instance is still the http server
InstanceKeptWitness ==
  /\ promises.close = "resolved"
  /\ instance # Undefined
  /\ instance.state = "closed"

\* C22 as it is stated: instance is defined only while the server listens:
\* not before the port is bound, not when binding failed, not when close()
\* has been resolved
InstanceOnlyWhileListening ==
  instance # Undefined => instance.state \in {"listening", "closing"}

\* C23: every promise of listen() and of close() is settled in the end, the
\* one of close() on a server that never listened too, and the failures of
\* the transport reach the caller through these promises alone: no step that
\* settles one invokes an error handler.
ListenAndCloseSettle ==
  /\ (promises.listen = "pending") ~> (promises.listen \in {"resolved", "rejected"})
  /\ (promises.close = "pending") ~> (promises.close \in {"resolved", "rejected"})
  /\ [][promises' # promises
        => \A id \in Requests : reqs'[id].errs = reqs[id].errs]_vars

\* close() on a server that never listened: its promise is rejected
ListenAndCloseSettleWitness ==
  /\ instance = Undefined
  /\ promises.close = "rejected"
  /\ ret = Returns("promise", "close")

-----------------------------------------------------------------------------
(* Properties of the calls' return values, checked under SpecApi.          *)

RegistrationCalls == {"withMethod", "use", "setErrorHandler", "setNotFoundHandler"}

\* C24: a call of one of the nine method functions, of use(), of
\* setErrorHandler() or of setNotFoundHandler() that does not throw returns
\* the server it was called on.
RegistrationReturnsSelf ==
  (ret.by \in RegistrationCalls /\ ret.error = "") => ret.value = Flitz

\* the last call registered a TRACE route and returned, after calls of the
\* other kinds were accepted too
RegistrationReturnsSelfWitness ==
  /\ ret = Returns(Flitz, "withMethod")
  /\ Len(Bucket(groupedHandlers, "TRACE")) = 1
  /\ Len(Bucket(groupedHandlers, "CONNECT")) = 1
  /\ globalMiddleWares = <<"g1">>
  /\ errorHandler = "E1"
  /\ notFoundHandler = "E1"

\* C25: a call of static() that does not throw returns the server it was
\* called on.
StaticReturnsSelf ==
  (ret.by = "static" /\ ret.error = "") => ret.value = Flitz

\* static() has registered its route and returned
StaticReturned ==
  /\ ret.by = "static"
  /\ ret.error = ""
  /\ Len(Bucket(groupedHandlers, "GET")) = 1
  /\ groupedHandlers["GET"][1].handler.kind = "static"

-----------------------------------------------------------------------------
(* Properties of static(), checked under SpecStatic.                       *)

\* static() has registered its route, the only one of the server
Mounted == Len(Bucket(groupedHandlers, "GET")) = 1

StaticHandler == groupedHandlers["GET"][1].handler

MountedBasePath == groupedHandlers["GET"][1].isPathValid.basePath

\* the request is handed to the dispatcher in this step
Arriving(id) == reqs[id].pc = "none" /\ reqs'[id].pc # "none"

\* the path of a file or directory as the disk knows it, for a url under a
\* root directory
OnDisk(rootDir, url) == rootDir \o url

\* the response is a 404 that the handler of static() wrote and ended, and
\* neither the not-found handler nor the error handler was invoked
AnsweredByStatic(r) ==
  /\ r.res.headersSent
  /\ r.res.status = 404
  /\ r.res.ended
  /\ r.res.ends = 1
  /\ r.res.body = <<>>
  /\ r.errs = {}
  /\ Len(r.acts) = 1
  /\ r.acts[1].fn = "static"
  /\ r.acts[1].role = "handler"
  /\ r.acts[1].st = "ok"
  /\ r.pc = "done"

\* C26: with a directory served by static(), a GET request whose url starts
\* with basePath and for which there is no file to serve is answered by the
\* handler of static() itself, in both cache modes: the response has the
\* status 404 and is ended, and the not-found handler is not invoked.  With
\* the cache there is no file when the url is no key of the files read at
\* registration; without it, when nothing is at the path of the url under
\* rootDir as the request arrives, or a directory is there when stat answers.
StaticAnswersNotFound ==
  [][\A id \in SoloRequests :
       LET r == reqs[id]
           after == reqs'[id]
       IN /\ ( /\ Mounted
               /\ Arriving(id)
               /\ IsPrefix(MountedBasePath, after.url)
               /\ IF StaticHandler.cache
                    THEN after.url \notin DOMAIN StaticHandler.files
                    ELSE /\ OnDisk(StaticHandler.rootDir, after.url) \notin DOMAIN disk
                         /\ OnDisk(StaticHandler.rootDir, after.url) \notin Directories )
             => AnsweredByStatic(after)
          /\ ( /\ Len(r.acts) = 1
               /\ r.acts[1].st = "stat"
               /\ after.pc = "done"
               /\ OnDisk(RootDir, r.url) \in Directories )
             => AnsweredByStatic(after)
    ]_vars

\* FileB was there when static() read the directory into its cache; a
\* request for /s/b, which is not the key of FileB, was answered 404 by the
\* handler of static()
StaticAnswersNotFoundWitness ==
  /\ Mounted
  /\ StaticHandler.cache
  /\ MountedBasePath = BasePath
  /\ DOMAIN StaticHandler.files = {BasePath \o <<"/", "s", "/", "b">>}
  /\ reqs[1].url = BasePath \o <<"/", "b">>
  /\ AnsweredByStatic(reqs[1])

\* the path of a file below the served directory
RelativeToRoot(p) == IF p = FileA THEN <<"a">> ELSE <<"s", "/", "b">>

\* basePath joined with the path of a file below the served directory
UrlOf(basePath, p) ==
  IF basePath[Len(basePath)] = "/"
    THEN basePath \o RelativeToRoot(p)
    ELSE basePath \o <<"/">> \o RelativeToRoot(p)

\* C27: static() with the cache serves by exact key.  When it registers, it
\* keeps every regular file that is under rootDir then, under the url that is
\* basePath joined with the path of the file below rootDir, with the bytes
\* the file has then, and nothing else.  A GET request under basePath whose
\* url is such a key gets 200 with these bytes and the response ended, every
\* other url under basePath gets 404.
CachedServesByKey ==
  [][/\ ( /\ groupedHandlers' # groupedHandlers
          /\ ret'.by = "static"
          /\ groupedHandlers'["GET"][1].handler.cache )
        => LET files == groupedHandlers'["GET"][1].handler.files
               basePath == groupedHandlers'["GET"][1].isPathValid.basePath
           IN /\ DOMAIN files = {UrlOf(basePath, p) : p \in DOMAIN disk}
              /\ \A p \in DOMAIN disk : files[UrlOf(basePath, p)] = disk[p]
     /\ \A id \in SoloRequests :
          ( /\ Mounted
            /\ StaticHandler.cache
            /\ Arriving(id)
            /\ IsPrefix(MountedBasePath, reqs'[id].url) )
          => LET after == reqs'[id] IN
               /\ after.pc = "done"
               /\ after.errs = {}
               /\ after.res.ended
               /\ after.res.ends = 1
               /\ IF after.url \in DOMAIN StaticHandler.files
                    THEN /\ after.res.status = 200
                         /\ after.res.body = <<StaticHandler.files[after.url]>>
                    ELSE /\ after.res.status = 404
                         /\ after.res.body = <<>>
    ]_vars

\* FileA had the bytes "v1" when static() registered and was written anew
\* afterwards; a request for its key was answered 200 with "v1"
CachedServesByKeyWitness ==
  /\ Mounted
  /\ StaticHandler.cache
  /\ MountedBasePath = BasePath \o <<"/">>
  /\ FileA \in DOMAIN disk
  /\ disk[FileA] = "v2"
  /\ reqs[1].url = BasePath \o <<"/", "a">>
  /\ reqs[1].pc = "done"
  /\ reqs[1].res = [headersSent |-> TRUE, status |-> 200, body |-> <<"v1">>,
                      ended |-> TRUE, ends |-> 1]

-----------------------------------------------------------------------------
(* Properties of the default handlers, checked under SpecRes.              *)

\* C28: the default error handler writes the status 500 exactly when no
\* headers were sent before it is invoked, in either case ends the response
\* with one call of end(), and never fails because headers were sent.
DefaultErrorHandlerGuarded ==
  [][\A id \in SoloRequests :
       LET before == reqs[id].res
           after == reqs'[id].res
           invoked == reqs'[id].errs \ reqs[id].errs
       IN (invoked # {} /\ \A e \in invoked : e.fn = DefaultErrorHandler)
          => /\ \A e \in invoked : e.st = "ok"
             /\ after.headersSent
             /\ after.status = (IF before.headersSent THEN before.status ELSE 500)
             /\ after.body = before.body
             /\ after.ended
             /\ after.ends = before.ends + 1
    ]_vars

\* the handler H1 wrote the head of the response and failed afterwards; the
\* default error handler left the status and ended the response
DefaultErrorHandlerGuardedWitness ==
  /\ errorHandler = DefaultErrorHandler
  /\ Trace(reqs[1]) = <<"H1">>
  /\ reqs[1].acts[1].st = "err"
  /\ \E e \in reqs[1].errs : e.fn = DefaultErrorHandler /\ e.st = "ok"
  /\ reqs[1].res = [headersSent |-> TRUE, status |-> 200, body |-> <<>>,
                      ended |-> TRUE, ends |-> 1]

\* C29: while the caller has set no not-found handler, a request that no
\* route accepts is answered by the default one: the status 404 is written,
\* the response is ended, and the error handler is not invoked.
DefaultNotFound ==
  [][\A id \in SoloRequests :
       LET after == reqs'[id] IN
         (Arriving(id) /\ notFoundHandler = DefaultNotFoundHandler /\ Unmatched(after))
         => /\ after.res = [headersSent |-> TRUE, status |-> 404, body |-> <<>>,
                             ended |-> TRUE, ends |-> 1]
            /\ after.errs = {}
            /\ Trace(after) = <<DefaultNotFoundHandler>>
            /\ after.acts[1].st = "ok"
            /\ after.pc = "done"
    ]_vars

\* a route for /a and a global middleware are registered; a request for /b
\* was answered 404 by the default not-found handler
DefaultNotFoundWitness ==
  /\ notFoundHandler = DefaultNotFoundHandler
  /\ Len(Bucket(groupedHandlers, "GET")) = 1
  /\ globalMiddleWares = <<"g1">>
  /\ reqs[1].method = "GET"
  /\ reqs[1].url = PathB
  /\ reqs[1].pc = "done"
  /\ reqs[1].res.status = 404
  /\ reqs[1].res.ended
  /\ reqs[1].errs = {}

-----------------------------------------------------------------------------
(* Properties of repeated registration, checked under SpecRes.             *)

\* the bucket has, at two places, routes registered with the same path and
\* the same handler and middlewares
Duplicates(bucket) == {k \in 1..Len(bucket) : \E j \in 1..(k - 1) : bucket[j] = bucket[k]}

\* a request matched into a bucket with a route and its duplicate, both
\* accepting it, is with the first route of the bucket that accepts it, no
\* function is invoked but the stages of that route after the global
\* middlewares, each once, and the handler is invoked when every middleware
\* has called its next()
ServedByFirstEntry ==
  \A id \in SoloRequests :
    LET r == reqs[id]
        bucket == Bucket(groupedHandlers, r.method)
        req == [method |-> r.method, url |-> r.url]
    IN (r.pc # "none" /\ \E k \in Duplicates(bucket) : IsPathValid(bucket[k].isPathValid, req))
       => /\ r.idx \in 1..Len(bucket)
          /\ r.idx \notin Duplicates(bucket)
          /\ \A i \in 1..(r.idx - 1) : ~IsPathValid(bucket[i].isPathValid, req)
          /\ IsPrefix(Trace(r), r.g0 \o RouteStages(bucket[r.idx]))
          /\ EveryMiddlewareCalledNext(r) => Trace(r) = r.g0 \o RouteStages(bucket[r.idx])

\* C30: registration does not deduplicate.  Every accepted registration, also
\* of a method, path and handler registered before, adds one entry at the end
\* of the bucket of the method and leaves the entries there were; a request
\* that a route and its duplicate accept is served by the first of them only,
\* so that the handler runs once for it.
NoDeduplication ==
  [][/\ ( /\ ret' = Returns(Flitz, "withMethod")
          /\ ret' # ret \/ groupedHandlers' # groupedHandlers )
        => \E method \in DOMAIN groupedHandlers' :
             LET old == Bucket(groupedHandlers, method)
                 new == groupedHandlers'[method]
             IN /\ Len(new) = Len(old) + 1
                /\ SubSeq(new, 1, Len(old)) = old
                /\ \A m \in DOMAIN groupedHandlers' \ {method} :
                     m \in DOMAIN groupedHandlers /\ groupedHandlers'[m] = groupedHandlers[m]
     /\ ServedByFirstEntry'
    ]_vars

\* GET /a was registered twice with the handler H1; a request for /a went to
\* the first entry and H1 ran once
NoDeduplicationWitness ==
  /\ Len(Bucket(groupedHandlers, "GET")) = 2
  /\ groupedHandlers["GET"][1] = groupedHandlers["GET"][2]
  /\ groupedHandlers["GET"][1].handler = UserHandler(Fn("H1"))
  /\ globalMiddleWares = <<>>
  /\ reqs[1].url = PathA
  /\ reqs[1].idx = 1
  /\ reqs[1].pc = "done"
  /\ Trace(reqs[1]) = <<"H1">>
  /\ reqs[1].acts[1].st = "ok"

-----------------------------------------------------------------------------
(* Properties of the route table and the middleware list as they grow,     *)
(* checked under SpecApi.                                                  *)

\* C33: append-only state.  Whatever is called, the bucket of every method
\* and the list of global middlewares only grow at their end: a bucket there
\* is stays, what a bucket or the list holds before a call is the beginning
\* of what it holds after it, in the same order.
AppendOnly ==
  [][/\ \A m \in DOMAIN groupedHandlers :
          /\ m \in DOMAIN groupedHandlers'
          /\ IsPrefix(groupedHandlers[m], groupedHandlers'[m])
     /\ IsPrefix(globalMiddleWares, globalMiddleWares')
    ]_vars

\* static() has put its route behind the one registered with get(), and use()
\* has added a second global middleware
AppendOnlyWitness ==
  /\ Len(Bucket(groupedHandlers, "GET")) = 2
  /\ groupedHandlers["GET"][1].handler = UserHandler(Fn("H1"))
  /\ groupedHandlers["GET"][2].handler.kind = "static"
  /\ globalMiddleWares = <<"g1", "g1">>
  /\ ret.by = "use"

-----------------------------------------------------------------------------
(* Properties of the scan of the bucket, checked under SpecMatch.          *)

\* C34: the scan short-circuits.  For one request the validators asked are
\* those of the bucket of its method only, from the first on in the order of
\* registration, each once, up to the first that accepts and none after it;
\* when none accepts, the scan ends with the bucket or with a validator that
\* throws.
MatchersShortCircuit ==
  \A id \in SoloRequests :
    LET r == reqs[id]
        bucket == Bucket(groupedHandlers, r.method)
        n == Len(r.tested)
    IN r.pc # "none" =>
         /\ n <= Len(bucket)
         /\ \A j \in 1..n : r.tested[j] = <<r.method, j>>
         /\ r.idx > 0 => n = r.idx
         /\ r.idx = 0 =>
              \/ n = Len(bucket)
              \/ bucket[n].isPathValid = isPathValidByFunction(Fn("pThrow"))

\* the first route of the GET bucket accepted the request; the validator of
\* the second, which accepts every request, was not asked
MatchersShortCircuitWitness ==
  /\ Len(Bucket(groupedHandlers, "GET")) = 2
  /\ groupedHandlers["GET"][1].isPathValid = isPathValidByString(Str(PathA))
  /\ groupedHandlers["GET"][2].isPathValid = isPathValidByFunction(Fn("pAll"))
  /\ reqs[1].method = "GET"
  /\ reqs[1].url = PathA
  /\ reqs[1].idx = 1
  /\ reqs[1].tested = << <<"GET", 1>> >>

\* the place of the first predicate of the bucket that throws, when only
\* strings and predicates that refuse the request are before it; 0 otherwise
ThrowingPlace(bucket, req) ==
  LET places == {k \in 1..Len(bucket) :
                   /\ bucket[k].isPathValid = isPathValidByFunction(Fn("pThrow"))
                   /\ \A j \in 1..(k - 1) :
                        /\ bucket[j].isPathValid.kind = "string"
                        /\ bucket[j].isPathValid.path # req.url}
  IN IF places = {} THEN 0 ELSE CHOOSE k \in places : \A j \in places : k <= j

\* C37: a predicate that throws during the scan.  When the scan of the
\* bucket comes to a predicate function that throws, the error handler is
\* invoked once, with what was thrown, by the catch of the dispatcher; no
\* validator after the predicate is asked, and neither a handler of a route
\* nor the not-found handler is invoked for the request.
ThrowingPredicate ==
  \A id \in SoloRequests :
    LET r == reqs[id]
        k == ThrowingPlace(Bucket(groupedHandlers, r.method),
                           [method |-> r.method, url |-> r.url])
    IN (r.pc # "none" /\ k > 0)
       => /\ r.acts = <<>>
          /\ r.idx = 0
          /\ Len(r.tested) = k
          /\ r.errs = {[fn |-> errorHandler, err |-> 0, via |-> "dispatcher", st |-> "ok"]}
          /\ r.pc = "done"

\* the first route refused the request, the predicate of the second threw;
\* the default error handler answered 500
ThrowingPredicateWitness ==
  /\ Len(Bucket(groupedHandlers, "GET")) = 2
  /\ groupedHandlers["GET"][1].isPathValid = isPathValidByString(Str(PathB))
  /\ groupedHandlers["GET"][2].isPathValid = isPathValidByFunction(Fn("pThrow"))
  /\ reqs[1].method = "GET"
  /\ reqs[1].url = PathA
  /\ reqs[1].tested = << <<"GET", 1>>, <<"GET", 2>> >>
  /\ reqs[1].acts = <<>>
  /\ Cardinality(reqs[1].errs) = 1
  /\ reqs[1].res.status = 500
  /\ reqs[1].res.ended

\* the place find() returns for every method and url, as things are
Selection ==
  [method \in Methods, url \in Urls |->
     FirstMatch(Bucket(Compiled, method), [method |-> method, url |-> url])]

\* C39: selection is deterministic and stateless.  While nothing is
\* registered, what a request of a method and a url selects stays what it
\* is: the dispatch of a request does not change what a later request,
\* identical or not, selects.
SelectionStable ==
  [][(groupedHandlers' = groupedHandlers /\ globalMiddleWares' = globalMiddleWares)
       => Selection' = Selection]_vars

-----------------------------------------------------------------------------
(* Properties of requests no route accepts, checked under SpecRes.         *)

\* C38: global middlewares and the not-found handler.  For a request find()
\* gave no route, no function registered with use() is invoked, whatever the
\* list of global middlewares holds: no chain is started, and what is
\* invoked is the not-found handler alone.
GlobalsSkippedOnNotFound ==
  \A id \in SoloRequests :
    LET r == reqs[id] IN
      (r.pc # "none" /\ r.idx = 0)
      => /\ r.chains = <<>>
         /\ \A k \in 1..Len(r.acts) :
              /\ r.acts[k].role # "mw"
              /\ \A j \in 1..Len(globalMiddleWares) : r.acts[k].fn # globalMiddleWares[j]

\* a request for a path no route of the GET bucket has went to the not-found
\* handler of the caller on a server with a global middleware
GlobalsSkippedOnNotFoundWitness ==
  /\ globalMiddleWares = <<"g1">>
  /\ Len(Bucket(groupedHandlers, "GET")) > 0
  /\ reqs[1].method = "GET"
  /\ reqs[1].url = PathB
  /\ reqs[1].idx = 0
  /\ reqs[1].g0 = <<"g1">>
  /\ Trace(reqs[1]) = <<"N1">>
  /\ reqs[1].pc = "done"

-----------------------------------------------------------------------------
(* Properties of requests in flight together, checked under SpecConc.      *)

\* the calls of next() the middlewares of chain c of the request have made
NextCalls(r, c) ==
  Cardinality({k \in 1..Len(r.acts) :
                 r.acts[k].role = "mw" /\ r.acts[k].chain = c /\ r.acts[k].nexts = 1})

\* the request has gone through its own chains only: the cursor of each has
\* counted the calls of next() of this request, what was invoked is a
\* beginning of the global middlewares, the route middlewares and the
\* handler in the order of registration, and all of it, each once, when
\* every middleware invoked has called next()
OwnChain(r) ==
  Matched(r) =>
    /\ \A c \in 1..Len(r.chains) : r.chains[c].i = NextCalls(r, c)
    /\ IsPrefix(Trace(r), r.g0 \o RouteStages(RouteOf(r)))
    /\ EveryMiddlewareCalledNext(r) => Trace(r) = r.g0 \o RouteStages(RouteOf(r))

\* C31: requests in flight together.  However the steps of two requests
\* through one compiled route interleave, each request has cursors of its
\* own, runs the whole middleware sequence in the order of registration and
\* then the handler once, and a step of one request leaves the other as it
\* was.
ConcurrentChains ==
  [][\A id \in Requests :
       /\ OwnChain(reqs[id])'
       /\ reqs'[id] # reqs[id] => reqs'[3 - id] = reqs[3 - id]
    ]_vars

\* both requests are on the route with a middleware of its own, behind one
\* global middleware: the first is still in the global middleware, the second
\* was dispatched after it and has run its whole chain
ConcurrentChainsWitness ==
  /\ Matched(reqs[1]) /\ Matched(reqs[2])
  /\ reqs[1].method = reqs[2].method
  /\ reqs[1].url = reqs[2].url
  /\ reqs[1].idx = reqs[2].idx
  /\ Trace(reqs[1]) = <<"g1">>
  /\ reqs[1].acts[1].st = "run"
  /\ reqs[1].acts[1].nexts = 0
  /\ Trace(reqs[2]) = <<"g1", "r1", "H2">>
  /\ \A k \in 1..3 : reqs[2].acts[k].st = "ok"

\* C32: a suspended request does not block another.  Whatever the first
\* request does, and when it stays for ever in a middleware that does not
\* call next() or in a handler whose promise does not settle, the second
\* request, whose functions go on, is matched, goes through its own chain
\* and is over in the end.
SuspendedDoesNotBlock ==
  (reqs[2].pc # "none") ~> (Finished(reqs[2]) /\ OwnChain(reqs[2]))

\* the handler of the first request has not settled; the second request,
\* dispatched to the same route after it, is over
SuspendedDoesNotBlockWitness ==
  /\ globalMiddleWares = <<>>
  /\ Matched(reqs[1]) /\ Matched(reqs[2])
  /\ reqs[1].idx = reqs[2].idx
  /\ Trace(reqs[1]) = <<"r1", "H2">>
  /\ reqs[1].acts[2].st = "run"
  /\ Trace(reqs[2]) = <<"r1", "H2">>
  /\ reqs[2].acts[2].st = "ok"
  /\ reqs[2].pc = "done"
  /\ Finished(reqs[2])

-----------------------------------------------------------------------------
(* Properties of a chain whose middlewares call next() more than once,     *)
(* checked under SpecTwice.                                                *)

\* C36: no stage twice.  For a matched request every middleware and the
\* handler of the route are invoked at most once, also when a middleware
\* calls its next() a second time.
StagesAtMostOnce ==
  \A id \in SoloRequests :
    LET r == reqs[id] IN
      Matched(r) =>
        \A j, k \in 1..Len(r.acts) : j # k => r.acts[j].fn # r.acts[k].fn

-----------------------------------------------------------------------------
(* Properties of the course of one request, checked under SpecSlots.       *)

\* C35: the course of a request.  A request goes to the chain of a route or
\* to the not-found handler and never to both; the error handler is invoked
\* only after a function of the chain or the not-found handler has failed;
\* and the call of the dispatcher returns only when the chain, the not-found
\* handler and the error handler it went to have finished.
RequestStateMachine ==
  \A id \in SoloRequests :
    LET r == reqs[id] IN
      r.pc # "none" =>
        /\ \A j, k \in 1..Len(r.acts) :
             ~(r.acts[j].role = "notFound" /\ r.acts[k].role \in {"mw", "handler"})
        /\ \A e \in r.errs : e.err \in 1..Len(r.acts) /\ Failed(r.acts[e.err])
        /\ r.pc = "done" =>
             /\ \A k \in 1..Len(r.acts) : r.acts[k].st # "run"
             /\ \A e \in r.errs : e.st # "run"

-----------------------------------------------------------------------------
(* Properties of a chain whose functions behave, checked under SpecChain.  *)

\* C40: the chain goes on.  For a matched request whose middlewares, global
\* and of the route, all call next() in the end and none of whose functions
\* fails, the handler of the route is invoked in the end, after every global
\* middleware and every middleware of the route has been invoked, in order.
ChainProgress ==
  \A id \in SoloRequests :
    Matched(reqs[id])
    ~> /\ Matched(reqs[id])
       /\ reqs[id].acts # <<>>
       /\ reqs[id].acts[Len(reqs[id].acts)].role = "handler"
       /\ Trace(reqs[id]) = reqs[id].g0 \o RouteStages(RouteOf(reqs[id]))

\* the handler of the route was invoked after the global middleware and the
\* middleware of the route, and all of them are done
ChainProgressWitness ==
  /\ Matched(reqs[1])
  /\ reqs[1].g0 = <<"g1">>
  /\ Trace(reqs[1]) = <<"g1", "r1", "H2">>
  /\ reqs[1].acts[3].role = "handler"
  /\ \A k \in 1..3 : reqs[1].acts[k].st = "ok"
  /\ reqs[1].errs = {}

=============================================================================
